---- MODULE Spec2Model ----
(***************************************************************************)
(* A model of the Gemini schema-sanitizer proxy (gemini-proxy, Phase 4):   *)
(* the per-conversation thought-signature store, signature injection and   *)
(* extraction (buffered and streaming), and the request/retry pipeline of  *)
(* makeRequestWithRetry together with the server's request handler.        *)
(*                                                                         *)
(* JSON values are tagged records [t |-> kind, v |-> payload]; a JSON      *)
(* object's payload is a function from its keys to JSON values.            *)
(***************************************************************************)
EXTENDS Integers, Sequences, FiniteSets, TLC

\* ------------------------------------------------------------------------
\* JSON values and the JavaScript operations the code applies to them
\* ------------------------------------------------------------------------
JUndef == [t |-> "undefined"]
JNull == [t |-> "null"]
JStr(s) == [t |-> "string", v |-> s]
JNum(n) == [t |-> "number", v |-> n]
JBool(b) == [t |-> "boolean", v |-> b]
JArr(s) == [t |-> "array", v |-> s]
JObj(f) == [t |-> "object", v |-> f]
EmptyObj == JObj(<<>>)

\* What an exception thrown while a value is being computed leaves behind.
Thrown == [t |-> "thrown"]

IsNullish(x) == x.t \in {"undefined", "null"}
IsArray(x) == x.t = "array"

\* JavaScript truthiness (ToBoolean).
Truthy(x) ==
  CASE x.t = "undefined" -> FALSE
    [] x.t = "null" -> FALSE
    [] x.t = "string" -> x.v # ""
    [] x.t = "number" -> x.v # 0
    [] x.t = "boolean" -> x.v
    [] OTHER -> TRUE

\* o.k for a non-nullish o (the caller decides what a nullish o does).
Get(o, k) == IF o.t = "object" /\ k \in DOMAIN o.v THEN o.v[k] ELSE JUndef

\* o?.k
OptGet(o, k) == IF IsNullish(o) THEN JUndef ELSE Get(o, k)

Has(o, k) == o.t = "object" /\ k \in DOMAIN o.v

\* { ...o, k: x }
With(o, k, x) ==
  JObj([f \in (IF o.t = "object" THEN DOMAIN o.v ELSE {}) \cup {k} |->
          IF f = k THEN x ELSE o.v[f]])

\* delete o.k
Without(o, k) == JObj([f \in DOMAIN o.v \ {k} |-> o.v[f]])

\* array.map(f) where some f(x) may throw: the whole map throws.
AnyThrown(s) == \E i \in DOMAIN s : s[i] = Thrown

\* ------------------------------------------------------------------------
\* Program constants
\* ------------------------------------------------------------------------
SkipValidator == "skip_thought_signature_validator"
OneHourMs == 3600000
MaxSignatures == 100

\* ------------------------------------------------------------------------
\* The signature store: Map<conversation_id, Map<tool_call_id, {signature,
\* timestamp}>>.  A JavaScript Map keeps insertion order, which the sort in
\* cleanupSignatures observes, so a conversation's map is the sequence of
\* its records in insertion order.
\* ------------------------------------------------------------------------
SigIndex(m, id) == {i \in DOMAIN m : m[i].id = id}

\* signaturesMap.get(toolCall.id)?.signature: Map keys are compared by value
\* for primitives and by reference for objects, so an object or array id,
\* freshly parsed, finds nothing.
MapGetSignature(m, id) ==
  IF id.t \notin {"object", "array"} /\ SigIndex(m, id) # {}
  THEN m[CHOOSE i \in SigIndex(m, id) : TRUE].signature
  ELSE JUndef

\* signaturesMap.set(id, {signature, timestamp}): an existing key keeps its place.
MapSet(m, id, sig, ts) ==
  LET rec == [id |-> id, signature |-> sig, timestamp |-> ts] IN
  IF SigIndex(m, id) = {} THEN Append(m, rec)
  ELSE [i \in DOMAIN m |-> IF m[i].id = id THEN rec ELSE m[i]]

RECURSIVE KeepPlaces(_, _, _)
RECURSIVE ExtractCalls(_, _, _, _, _)
RECURSIVE ExtractChoices(_, _, _, _, _)
RECURSIVE sanitizeSchema(_)
RECURSIVE SanitizeEntry(_, _)
RECURSIVE StreamDeltas(_, _, _, _, _)
RECURSIVE StreamChoices(_, _, _, _, _)
RECURSIVE StreamChunks(_, _, _, _, _)
RECURSIVE ParseLines(_, _)
RECURSIVE DigitsValue(_, _, _)
RECURSIVE SkipSpaces(_)

\* A variant of the commit that starts the conversation's map afresh.
StoreSignatureAlone(cs, conv, id, sig, ts) ==
  [c \in DOMAIN cs \cup {conv} |-> IF c = conv THEN MapSet(<<>>, id, sig, ts) ELSE cs[c]]

\* The get-or-create of the conversation's map followed by signaturesMap.set.
StoreSignature(cs, conv, id, sig, ts) ==
  LET m == IF conv \in DOMAIN cs THEN cs[conv] ELSE <<>> IN
  [c \in DOMAIN cs \cup {conv} |-> IF c = conv THEN MapSet(m, id, sig, ts) ELSE cs[c]]

\* A variant of the expiry that drops what is older than half an hour.
DropExpiredHalfHour(m, now) ==
  SelectSeq(m, LAMBDA r : ~(r.timestamp < now - (OneHourMs \div 2)))

\* for (const [id, data] of map) if (data.timestamp < oneHourAgo) map.delete(id)
DropExpired(m, now) == SelectSeq(m, LAMBDA r : ~(r.timestamp < now - OneHourMs))

\* entries.sort((a, b) => a.timestamp - b.timestamp) is stable: the place of
\* record i in the sorted array, counted from 0.
SortedPlace(m, i) ==
  Cardinality({j \in DOMAIN m : \/ m[j].timestamp < m[i].timestamp
                                \/ m[j].timestamp = m[i].timestamp /\ j < i})

KeepPlaces(m, keep, i) ==
  IF i > Len(m) THEN <<>>
  ELSE (IF i \in keep THEN <<m[i]>> ELSE <<>>) \o KeepPlaces(m, keep, i + 1)

\* A variant of the cap that removes the newest records.
TrimNewest(m) ==
  IF Len(m) > MaxSignatures
  THEN KeepPlaces(m, {i \in DOMAIN m : SortedPlace(m, i) < MaxSignatures}, 1)
  ELSE m

\* entries.slice(0, size - 100).forEach(([id]) => map.delete(id))
TrimOldest(m) ==
  IF Len(m) > MaxSignatures
  THEN KeepPlaces(m, {i \in DOMAIN m : SortedPlace(m, i) >= Len(m) - MaxSignatures}, 1)
  ELSE m

\* A variant of the sweep that keeps the conversations it has emptied.
cleanupKeepingEmptied(cs, now) ==
  [c \in DOMAIN cs |-> TrimOldest(DropExpired(cs[c], now))]

\* cleanupSignatures(): expiry, removal of emptied conversations, then the cap.
cleanupSignatures(cs, now) ==
  LET live == {c \in DOMAIN cs : Len(DropExpired(cs[c], now)) # 0} IN
  [c \in live |-> TrimOldest(DropExpired(cs[c], now))]

\* ------------------------------------------------------------------------
\* Message bodies: bytes that parse as JSON or not.  form tells the bytes
\* JSON.stringify writes ("canonical") from other bytes with the same parse;
\* gz marks a gzip-compressed body.
\* ------------------------------------------------------------------------
RawText(s) == [parses |-> FALSE, content |-> JStr(s), form |-> "raw", gz |-> FALSE]
JsonText(x, form) == [parses |-> TRUE, content |-> x, form |-> form, gz |-> FALSE]
JSONstringify(x) == JsonText(x, "canonical")
Gzip(b) == [b EXCEPT !.gz = TRUE]
gunzipSync(b) == [b EXCEPT !.gz = FALSE]
\* JSON.parse(buffer.toString()) succeeds
Parses(b) == b.parses /\ ~b.gz

\* Strings s with s.trim() === ''
BlankStrings == {"", " "}

\* ------------------------------------------------------------------------
\* extractThoughtSignatures (buffered path)
\* ------------------------------------------------------------------------
\* A variant of the loop that ends at the first tool call it has to skip.
RECURSIVE ExtractCallsUntilSkip(_, _, _, _, _)
ExtractCallsUntilSkip(cs, calls, i, conv, now) ==
  IF i > Len(calls) THEN cs
  ELSE
    LET toolCall == calls[i]
        id == Get(toolCall, "id")
        fn == Get(toolCall, "function")
        signature == OptGet(OptGet(Get(toolCall, "extra_content"), "google"),
                            "thought_signature")
        skip == \/ ~Truthy(toolCall) \/ toolCall.t \notin {"object", "array"}
                \/ ~Truthy(id) \/ id.t # "string" \/ id.v \in BlankStrings
                \/ ~Truthy(fn)
                \/ ~Truthy(Get(fn, "name"))
    IN IF skip THEN cs
       ELSE ExtractCallsUntilSkip(IF Truthy(signature)
                                  THEN StoreSignature(cs, conv, id, signature, now)
                                  ELSE cs, calls, i + 1, conv, now)

\* The body of the loop over message.tool_calls, from call i on.
ExtractCalls(cs, calls, i, conv, now) ==
  IF i > Len(calls) THEN cs
  ELSE
    LET toolCall == calls[i]
        id == Get(toolCall, "id")
        fn == Get(toolCall, "function")
        signature == OptGet(OptGet(Get(toolCall, "extra_content"), "google"),
                            "thought_signature")
        skip == \/ ~Truthy(toolCall) \/ toolCall.t \notin {"object", "array"}
                \/ ~Truthy(id) \/ id.t # "string" \/ id.v \in BlankStrings
                \/ ~Truthy(fn)
                \/ ~Truthy(Get(fn, "name"))
        cs1 == IF ~skip /\ Truthy(signature)
               THEN StoreSignature(cs, conv, id, signature, now)
               ELSE cs
    IN ExtractCalls(cs1, calls, i + 1, conv, now)

\* The loop over data.choices, from choice i on; a throw ends the whole scan
\* (the outer try/catch) and keeps what was stored before it.
ExtractChoices(cs, choices, i, conv, now) ==
  IF i > Len(choices) THEN cs
  ELSE
    LET choice == choices[i]
        message == IF IsNullish(choice) THEN JUndef
                   ELSE IF Truthy(Get(choice, "message")) THEN Get(choice, "message")
                   ELSE Get(choice, "delta")
        calls == OptGet(message, "tool_calls")
    IN IF IsNullish(choice) THEN cs
       ELSE IF ~Truthy(calls) \/ calls.t = "string"
         THEN ExtractChoices(cs, choices, i + 1, conv, now)
       ELSE IF ~IsArray(calls) THEN cs
       ELSE ExtractChoices(ExtractCalls(cs, calls.v, 1, conv, now),
                           choices, i + 1, conv, now)

extractThoughtSignatures(responseData, conv, cs, now) ==
  IF ~Parses(responseData) \/ IsNullish(responseData.content) THEN cs
  ELSE LET choices == Get(responseData.content, "choices") IN
       IF ~Truthy(choices) \/ choices.t = "string" THEN cs
       ELSE IF ~IsArray(choices) THEN cs
       ELSE ExtractChoices(cs, choices.v, 1, conv, now)

\* ------------------------------------------------------------------------
\* injectThoughtSignatures (request path)
\* ------------------------------------------------------------------------
SignatureContent(signature) ==
  JObj([k \in {"google"} |-> JObj([j \in {"thought_signature"} |-> signature])])

\* A variant that injects at every position.
InjectToolCallEverywhere(toolCall, idx, signaturesMap) ==
  IF IsNullish(toolCall) THEN Thrown
  ELSE LET stored == MapGetSignature(signaturesMap, Get(toolCall, "id"))
           signature == IF Truthy(stored) THEN stored ELSE JStr(SkipValidator)
       IN With(toolCall, "extra_content", SignatureContent(signature))

\* The callback of msg.tool_calls.map; idx is the 0-based position.
InjectToolCall(toolCall, idx, signaturesMap) ==
  IF IsNullish(toolCall) THEN Thrown
  ELSE LET stored == MapGetSignature(signaturesMap, Get(toolCall, "id"))
           signature == IF Truthy(stored) THEN stored ELSE JStr(SkipValidator)
       IN IF idx = 0 THEN With(toolCall, "extra_content", SignatureContent(signature))
          ELSE toolCall

\* The callback of requestData.messages.map.
InjectMessage(msg, signaturesMap) ==
  IF IsNullish(msg) THEN Thrown
  ELSE IF Get(msg, "role") # JStr("assistant") \/ ~Truthy(Get(msg, "tool_calls")) THEN msg
  ELSE IF ~IsArray(Get(msg, "tool_calls")) THEN Thrown
  ELSE LET calls == Get(msg, "tool_calls").v
           toolCalls == [i \in DOMAIN calls |-> InjectToolCall(calls[i], i - 1, signaturesMap)]
       IN IF AnyThrown(toolCalls) THEN Thrown
          ELSE With(msg, "tool_calls", JArr(toolCalls))

\* All records of the store in one map, as a store without conversations
\* would hold them.
RECURSIVE AllRecords(_, _)
AllRecords(cs, convs) ==
  IF convs = {} THEN <<>>
  ELSE LET c == CHOOSE c \in convs : TRUE IN cs[c] \o AllRecords(cs, convs \ {c})

\* A variant that looks the signature up in the records of every conversation.
injectFromAnyConversation(requestData, conv, cs) ==
  IF ~Truthy(OptGet(requestData, "messages")) THEN requestData
  ELSE IF ~IsArray(Get(requestData, "messages")) THEN Thrown
  ELSE LET msgs == Get(requestData, "messages").v
           messages == [i \in DOMAIN msgs |->
                          InjectMessage(msgs[i], AllRecords(cs, DOMAIN cs))]
       IN IF AnyThrown(messages) THEN Thrown
          ELSE With(requestData, "messages", JArr(messages))

injectThoughtSignatures(requestData, conv, cs) ==
  IF ~Truthy(OptGet(requestData, "messages")) THEN requestData
  ELSE IF ~IsArray(Get(requestData, "messages")) THEN Thrown
  ELSE LET signaturesMap == IF conv \in DOMAIN cs THEN cs[conv] ELSE <<>>
           msgs == Get(requestData, "messages").v
           messages == [i \in DOMAIN msgs |-> InjectMessage(msgs[i], signaturesMap)]
       IN IF AnyThrown(messages) THEN Thrown
          ELSE With(requestData, "messages", JArr(messages))

\* ------------------------------------------------------------------------
\* sanitizeSchema / sanitizeTools
\* ------------------------------------------------------------------------
\* The keys removed by the unconditional delete statements.
DeletedKeys ==
  {"$ref", "$schema", "$id", "definitions", "$defs",
   "anyOf", "oneOf", "allOf", "not",
   "exclusiveMaximum", "exclusiveMinimum", "const", "contentEncoding",
   "contentMediaType",
   "prefixItems", "contains", "minContains", "maxContains",
   "propertyNames", "patternProperties", "dependentSchemas", "dependentRequired"}

WithoutAll(o, ks) == JObj([f \in DOMAIN o.v \ ks |-> o.v[f]])

\* if (clean.format && !['enum', 'date-time'].includes(clean.format)) delete
FormatRule(o) ==
  LET format == Get(o, "format") IN
  IF Truthy(format) /\ format \notin {JStr("enum"), JStr("date-time")}
  THEN Without(o, "format") ELSE o

\* clean.type.find(t => t !== 'null'), JUndef when there is none
FirstNonNull(types) ==
  LET at == {i \in DOMAIN types : types[i] # JStr("null")} IN
  IF at = {} THEN JUndef ELSE types[CHOOSE i \in at : \A j \in at : i <= j]

\* if (Array.isArray(clean.type)) { ... }
TypeArrayRule(o) ==
  LET type == Get(o, "type") IN
  IF ~IsArray(type) THEN o
  ELSE LET hasNull == \E i \in DOMAIN type.v : type.v[i] = JStr("null")
           nonNullType == FirstNonNull(type.v)
       IN IF Truthy(nonNullType)
          THEN LET typed == With(o, "type", nonNullType) IN
               IF hasNull THEN With(typed, "nullable", JBool(TRUE)) ELSE typed
          ELSE With(o, "type", JStr("string"))

\* if (clean.additionalProperties === false) delete clean.additionalProperties
ClosedObjectRule(o) ==
  IF Get(o, "additionalProperties") = JBool(FALSE)
  THEN Without(o, "additionalProperties") ELSE o

\* if (Array.isArray(clean.required) && clean.required.length === 0) delete
EmptyRequiredRule(o) ==
  IF Get(o, "required") = JArr(<<>>) THEN Without(o, "required") ELSE o

\* if (clean.type && !['number', 'integer'].includes(clean.type)) delete ...
NumericRule(o) ==
  LET type == Get(o, "type") IN
  IF Truthy(type) /\ type \notin {JStr("number"), JStr("integer")}
  THEN WithoutAll(o, {"minimum", "maximum", "multipleOf"}) ELSE o

\* Object.entries(x) as a function from keys to values; an array's keys are
\* its indices, a string's its positions, a number or boolean has none.
Entries(x) ==
  CASE x.t = "object" -> x.v
    [] x.t = "array" -> x.v
    [] OTHER -> <<>>

\* A variant of the node's cleaning that leaves `const` in place.
CleanNodeKeepingConst(schema) ==
  NumericRule(EmptyRequiredRule(ClosedObjectRule(TypeArrayRule(
    FormatRule(WithoutAll(schema, DeletedKeys \ {"const"}))))))

\* The deletions and rewrites applied to one object node, in the code's order.
CleanNode(schema) ==
  NumericRule(EmptyRequiredRule(ClosedObjectRule(TypeArrayRule(
    FormatRule(WithoutAll(schema, DeletedKeys))))))

\* A variant of the recursion that goes into properties and
\* additionalProperties and leaves items as it came.
SanitizeEntryNotItems(k, x) ==
  IF k = "properties" /\ Truthy(x) /\ x.t \in {"object", "array"}
  THEN JObj([e \in DOMAIN Entries(x) |-> sanitizeSchema(Entries(x)[e])])
  ELSE IF k = "additionalProperties" /\ Truthy(x) /\ x.t \in {"object", "array"}
    THEN sanitizeSchema(x)
  ELSE x

\* The three recursion steps, by key: properties (per entry), items and an
\* object-valued additionalProperties.
SanitizeEntry(k, x) ==
  IF k = "properties" /\ Truthy(x) /\ x.t \in {"object", "array"}
  THEN JObj([e \in DOMAIN Entries(x) |-> sanitizeSchema(Entries(x)[e])])
  ELSE IF \/ k = "items" /\ Truthy(x)
          \/ k = "additionalProperties" /\ Truthy(x) /\ x.t \in {"object", "array"}
    THEN sanitizeSchema(x)
  ELSE x

sanitizeSchema(schema) ==
  IF ~Truthy(schema) \/ schema.t \notin {"object", "array"} THEN schema
  ELSE IF schema.t = "array" THEN schema
  ELSE JObj([k \in DOMAIN CleanNode(schema).v |->
               SanitizeEntry(k, CleanNode(schema).v[k])])

\* The callback of tools.map.
SanitizeTool(tool) ==
  IF ~Truthy(OptGet(OptGet(tool, "function"), "parameters")) THEN tool
  ELSE With(tool, "function",
            With(Get(tool, "function"), "parameters",
                 sanitizeSchema(Get(Get(tool, "function"), "parameters"))))

sanitizeTools(tools) ==
  IF ~IsArray(tools) THEN tools
  ELSE JArr([i \in DOMAIN tools.v |-> SanitizeTool(tools.v[i])])

\* ------------------------------------------------------------------------
\* convertGeminiErrorToOpenAI
\* ------------------------------------------------------------------------
\* a || b
OrElse(a, b) == IF Truthy(a) THEN a ELSE b

convertGeminiErrorToOpenAI(responseData) ==
  IF ~Parses(responseData) \/ IsNullish(responseData.content) THEN responseData
  ELSE LET geminiError == Get(responseData.content, "error") IN
       IF Truthy(geminiError) /\ geminiError.t \in {"object", "array"}
       THEN JSONstringify(JObj([k \in {"error"} |->
              JObj([j \in {"message", "type", "code"} |->
                CASE j = "message" -> OrElse(Get(geminiError, "message"), JStr("Unknown error"))
                  [] j = "type" -> OrElse(Get(geminiError, "status"), JStr("api_error"))
                  [] OTHER -> OrElse(Get(geminiError, "code"), JNull)])]))
       ELSE responseData

\* ------------------------------------------------------------------------
\* Streaming: parseSSEChunks and extractSignaturesFromStreamChunks
\* ------------------------------------------------------------------------
\* A network chunk is the sequence of its text lines; a line is
\* [data |-> it starts with "data: ", payload |-> the bytes after the prefix].
DoneMarker == RawText("[DONE]")

\* The loop over lines, from line i on: the parsed payloads of the data lines.
ParseLines(lines, i) ==
  IF i > Len(lines) THEN <<>>
  ELSE (IF lines[i].data /\ lines[i].payload # DoneMarker /\ Parses(lines[i].payload)
        THEN <<lines[i].payload.content>> ELSE <<>>) \o ParseLines(lines, i + 1)

parseSSEChunks(buffer) == ParseLines(buffer, 1)

\* A fresh accumulator slot.
NewSlot == [id |-> JNull,
            function |-> [name |-> JNull, arguments |-> ""],
            extra_content |-> JNull]

\* String(x) as `+=` applies it to a truthy fragment.
ToStr(x) ==
  CASE x.t = "string" -> x.v
    [] x.t = "boolean" -> "true"
    [] OTHER -> "[object Object]"

\* The merge of one tool-call delta into its slot.
MergeDelta(slot, toolCallDelta) ==
  LET fn == Get(toolCallDelta, "function")
      s1 == IF Truthy(Get(toolCallDelta, "id"))
            THEN [slot EXCEPT !.id = Get(toolCallDelta, "id")] ELSE slot
      s2 == IF Truthy(fn) /\ Truthy(Get(fn, "name"))
            THEN [s1 EXCEPT !.function.name = Get(fn, "name")] ELSE s1
      s3 == IF Truthy(fn) /\ Truthy(Get(fn, "arguments"))
            THEN [s2 EXCEPT !.function.arguments = @ \o ToStr(Get(fn, "arguments"))]
            ELSE s2
  IN IF Truthy(Get(toolCallDelta, "extra_content"))
     THEN [s3 EXCEPT !.extra_content = Get(toolCallDelta, "extra_content")] ELSE s3

\* accumulated.extra_content?.google?.thought_signature
SlotSignature(slot) ==
  OptGet(OptGet(slot.extra_content, "google"), "thought_signature")

\* The loop over delta.tool_calls, from delta i on.  st is
\* [acc |-> accumulatedToolCalls, cs |-> conversationSignatures, thrown |-> ...].
StreamDeltas(st, deltas, i, conv, now) ==
  IF i > Len(deltas) THEN st
  ELSE
    LET toolCallDelta == deltas[i]
        index == OptGet(toolCallDelta, "index")
        slot == MergeDelta(IF index \in DOMAIN st.acc THEN st.acc[index] ELSE NewSlot,
                           toolCallDelta)
        signature == SlotSignature(slot)
        acc1 == [k \in DOMAIN st.acc \cup {index} |-> IF k = index THEN slot ELSE st.acc[k]]
        cs1 == IF Truthy(slot.id) /\ Truthy(signature)
               THEN StoreSignature(st.cs, conv, slot.id, signature, now) ELSE st.cs
    IN IF IsNullish(toolCallDelta) THEN [st EXCEPT !.thrown = TRUE]
       ELSE IF index.t = "undefined" THEN StreamDeltas(st, deltas, i + 1, conv, now)
       ELSE StreamDeltas([st EXCEPT !.acc = acc1, !.cs = cs1], deltas, i + 1, conv, now)

\* The loop over chunk.choices, from choice i on.
StreamChoices(st, choices, i, conv, now) ==
  IF i > Len(choices) \/ st.thrown THEN st
  ELSE
    LET choice == choices[i]
        calls == OptGet(OptGet(choice, "delta"), "tool_calls")
    IN IF IsNullish(choice) THEN [st EXCEPT !.thrown = TRUE]
       ELSE IF ~Truthy(calls) \/ calls.t = "string"
         THEN StreamChoices(st, choices, i + 1, conv, now)
       ELSE IF ~IsArray(calls) THEN [st EXCEPT !.thrown = TRUE]
       ELSE StreamChoices(StreamDeltas(st, calls.v, 1, conv, now),
                          choices, i + 1, conv, now)

\* The loop over the parsed events, from event i on.
StreamChunks(st, chunks, i, conv, now) ==
  IF i > Len(chunks) \/ st.thrown THEN st
  ELSE
    LET chunk == chunks[i]
        choices == OptGet(chunk, "choices")
    IN IF IsNullish(chunk) THEN [st EXCEPT !.thrown = TRUE]
       ELSE IF ~Truthy(choices) \/ choices.t = "string"
         THEN StreamChunks(st, chunks, i + 1, conv, now)
       ELSE IF ~IsArray(choices) THEN [st EXCEPT !.thrown = TRUE]
       ELSE StreamChunks(StreamChoices(st, choices.v, 1, conv, now),
                         chunks, i + 1, conv, now)

\* A variant that accumulates and leaves the store as it was.
extractWithoutCommit(chunks, accumulatedToolCalls, conv, cs, now) ==
  [StreamChunks([acc |-> accumulatedToolCalls, cs |-> cs, thrown |-> FALSE],
                chunks, 1, conv, now) EXCEPT !.cs = cs]

\* extractSignaturesFromStreamChunks: the accumulator and the store after the
\* events of one network chunk (a throw is caught by the data handler).
extractSignaturesFromStreamChunks(chunks, accumulatedToolCalls, conv, cs, now) ==
  StreamChunks([acc |-> accumulatedToolCalls, cs |-> cs, thrown |-> FALSE],
               chunks, 1, conv, now)

\* ------------------------------------------------------------------------
\* generateConversationId
\* ------------------------------------------------------------------------
\* crypto.createHash('sha256').update(s).digest('hex').substring(0, 16), on
\* the client strings of the model (the digests are the real ones).
Sha256Hex16(s) ==
  CASE s = "10.0.0.1:droid" -> "3fed40d7e3671111"
    [] s = "10.0.0.1:curl" -> "2185f1814fe27147"
    [] s = "10.0.0.1:unknown" -> "741e17a4eca8eb0f"
    [] s = "10.0.0.2:droid" -> "5bb1df17676ded6e"
    [] s = "10.0.0.2:curl" -> "85a01fe8681b90bc"
    [] s = "10.0.0.2:unknown" -> "dc6b5ece11cad505"
    [] s = "unknown:droid" -> "2545be5c2f4550c6"
    [] s = "unknown:curl" -> "53bccfea1df1faf8"
    [] OTHER -> "e771e26e1ef56f0a"

\* req is [explicit, forwarded, remote, agent]: the x-conversation-id,
\* x-forwarded-for and user-agent headers and the socket's remote address,
\* "" for one that is missing.
generateConversationId(req) ==
  IF req.explicit # "" THEN "explicit:" \o req.explicit
  ELSE LET clientIp == IF req.forwarded # "" THEN req.forwarded
                       ELSE IF req.remote # "" THEN req.remote ELSE "unknown"
           userAgent == IF req.agent # "" THEN req.agent ELSE "unknown"
       IN "auto:" \o Sha256Hex16(clientIp \o ":" \o userAgent)

\* ------------------------------------------------------------------------
\* Retry policy of makeRequestWithRetry
\* ------------------------------------------------------------------------
maxRetries == 5
max503Retries == 3
delays == <<2000, 5000, 10000, 20000, 40000>>

\* A header value is the sequence of its characters; NoHeader is a header
\* that is not there.
NoHeader == <<"undefined">>
NaN == [t |-> "NaN"]
Digits == <<"0", "1", "2", "3", "4", "5", "6", "7", "8", "9">>
IsDigit(c) == \E d \in DOMAIN Digits : Digits[d] = c
DigitOf(c) == (CHOOSE d \in DOMAIN Digits : Digits[d] = c) - 1

SkipSpaces(s) == IF s # <<>> /\ Head(s) = " " THEN SkipSpaces(Tail(s)) ELSE s

\* The value of the longest prefix of digits of s (acc so far, seen: a digit
\* was read), NaN when there is none.
DigitsValue(s, acc, seen) ==
  IF s # <<>> /\ IsDigit(Head(s)) THEN DigitsValue(Tail(s), 10 * acc + DigitOf(Head(s)), TRUE)
  ELSE IF seen THEN JNum(acc) ELSE NaN

\* parseInt(s): leading blanks, an optional sign, then decimal digits.
parseInt(s) ==
  LET t == SkipSpaces(s)
      neg == t # <<>> /\ Head(t) = "-"
      u == IF t # <<>> /\ Head(t) \in {"-", "+"} THEN Tail(t) ELSE t
      n == DigitsValue(u, 0, FALSE)
  IN IF n = NaN THEN NaN ELSE IF neg THEN JNum(0 - n.v) ELSE n

\* x * 1000
TimesThousand(x) == IF x = NaN THEN NaN ELSE JNum(x.v * 1000)

\* A variant that takes the delay from the sequence whatever the header says.
Delay429FromSequence(retryAfter, attempt) ==
  IF attempt + 1 \in DOMAIN delays THEN JNum(delays[attempt + 1])
  ELSE JNum(delays[Len(delays)])

\* The delay of the 429 branch for the attempt with this index.
Delay429(retryAfter, attempt) ==
  IF retryAfter # NoHeader /\ retryAfter # <<>>
  THEN TimesThousand(parseInt(retryAfter))
  ELSE IF attempt + 1 \in DOMAIN delays THEN JNum(delays[attempt + 1])
  ELSE JNum(delays[Len(delays)])

\* The 429 branch retries.
Retries429(attempt) == attempt < maxRetries - 1

\* The 503 branch retries.
Retries503(attempt) == attempt < max503Retries

\* Math.pow(2, attempt) * 1000, the delay of the 503 branch
Delay503(attempt) == JNum((2 ^ attempt) * 1000)

\* A variant that waits one second after every failure.
DelayErrorFlat(attempt) == JNum(1000)

\* 1000 * Math.pow(2, attempt), the delay of the catch branch
DelayError(attempt) == JNum(1000 * (2 ^ attempt))

\* The catch branch rethrows.
GivesUp(attempt) == attempt = maxRetries - 1

\* ------------------------------------------------------------------------
\* State
\* ------------------------------------------------------------------------
\* Bounds of the model.
NumRequests == 2
MaxChunks == 4
MaxClock == 2

Reqs == 1 .. NumRequests

VARIABLES
  conversationSignatures, \* the store, see StoreSignature
  clock,                  \* Date.now()
  crashed,                \* an exception left an event callback uncaught
  pc,                     \* where each request is in its life
  conversationId,         \* the handler's conversationId
  clientReq,              \* the headers and remote address of the request
  clientClosed,           \* the client's connection has closed
  requestData,            \* the handler's requestData
  body,                   \* the bytes written to the upstream request
  attempt,                \* the loop variable of makeRequestWithRetry
  requests,               \* how many https.request calls were made
  waits,                  \* the delays given to setTimeout by the retry loop
  proxyRes,               \* the upstream response being received
  accumulatedToolCalls,   \* the streaming accumulator of the attempt
  clientRes,              \* what was written to the client
  result,                 \* how makeRequestWithRetry settled
  clientBody,             \* the bytes received from the client
  upstreamLog             \* how each upstream attempt ended, in order

vars == <<conversationSignatures, clock, crashed, pc, conversationId, clientReq, clientClosed, requestData,
          body, attempt, requests, waits, proxyRes, accumulatedToolCalls,
          clientRes, result, clientBody, upstreamLog>>

NoBytes == [parses |-> FALSE, content |-> JUndef, form |-> "none", gz |-> FALSE]
NoHeaders == [retry_after |-> NoHeader, content_encoding |-> "", content_length |-> NoBytes]
NoResponse == [statusCode |-> 0, headers |-> NoHeaders, responseBody |-> <<>>]
FreshClientRes == [headersSent |-> FALSE, statusCode |-> 0, headers |-> NoHeaders,
                   written |-> <<>>, ended |-> FALSE]
Pending == [kind |-> "pending"]
\* No request has come in on the connection yet.
NoRequest == [explicit |-> "", forwarded |-> "", remote |-> "", agent |-> "", none |-> TRUE]

Init ==
  /\ conversationSignatures = <<>>
  /\ clock = 0
  /\ crashed = FALSE
  /\ pc = [r \in Reqs |-> "new"]
  /\ conversationId = [r \in Reqs |-> ""]
  /\ clientReq = [r \in Reqs |-> NoRequest]
  /\ clientClosed = [r \in Reqs |-> FALSE]
  /\ requestData = [r \in Reqs |-> JUndef]
  /\ body = [r \in Reqs |-> NoBytes]
  /\ attempt = [r \in Reqs |-> 0]
  /\ requests = [r \in Reqs |-> 0]
  /\ waits = [r \in Reqs |-> <<>>]
  /\ proxyRes = [r \in Reqs |-> NoResponse]
  /\ accumulatedToolCalls = [r \in Reqs |-> <<>>]
  /\ clientRes = [r \in Reqs |-> FreshClientRes]
  /\ result = [r \in Reqs |-> Pending]
  /\ clientBody = [r \in Reqs |-> NoBytes]
  /\ upstreamLog = [r \in Reqs |-> <<>>]

\* requestData?.stream === true
isStreaming(r) == OptGet(requestData[r], "stream") = JBool(TRUE)

\* ------------------------------------------------------------------------
\* The server's request handler
\* ------------------------------------------------------------------------
\* http.createServer callback: the conversation id, then the sweep.
Arrive(r, req) ==
  /\ ~crashed
  /\ pc[r] = "new"
  /\ clientReq' = [clientReq EXCEPT ![r] = req]
  /\ conversationId' = [conversationId EXCEPT ![r] = generateConversationId(req)]
  /\ conversationSignatures' = cleanupSignatures(conversationSignatures, clock)
  /\ pc' = [pc EXCEPT ![r] = "receiving"]
  /\ UNCHANGED <<clock, crashed, clientClosed, requestData, body, attempt, requests, waits,
                 proxyRes, accumulatedToolCalls, clientRes, result, clientBody,
                 upstreamLog>>

\* A variant of the preparation that sends an empty JSON object in place of
\* bytes it cannot parse.
PrepareRequestStrict(raw, conv, cs) ==
  IF ~Parses(raw) THEN [requestData |-> JUndef, body |-> JSONstringify(EmptyObj)]
  ELSE IF IsNullish(raw.content) THEN [requestData |-> raw.content, body |-> raw]
  ELSE
    LET tools == Get(raw.content, "tools")
        sanitized == IF Truthy(tools) /\ IsArray(tools)
                     THEN With(raw.content, "tools", sanitizeTools(tools))
                     ELSE raw.content
        injected == injectThoughtSignatures(sanitized, conv, cs)
    IN IF injected = Thrown THEN [requestData |-> sanitized, body |-> raw]
       ELSE [requestData |-> injected, body |-> JSONstringify(injected)]

\* The try block of the 'end' handler: parse, sanitize the tools, inject; the
\* catch keeps the bytes as received.  requestData is what the variable holds
\* afterwards, body the bytes to send.
PrepareRequest(raw, conv, cs) ==
  IF ~Parses(raw) THEN [requestData |-> JUndef, body |-> raw]
  ELSE IF IsNullish(raw.content) THEN [requestData |-> raw.content, body |-> raw]
  ELSE
    LET tools == Get(raw.content, "tools")
        sanitized == IF Truthy(tools) /\ IsArray(tools)
                     THEN With(raw.content, "tools", sanitizeTools(tools))
                     ELSE raw.content
        injected == injectThoughtSignatures(sanitized, conv, cs)
    IN IF injected = Thrown THEN [requestData |-> sanitized, body |-> raw]
       ELSE [requestData |-> injected, body |-> JSONstringify(injected)]

\* clientReq 'end': the request is prepared and makeRequestWithRetry issues
\* its first https.request.
ClientEnd(r, raw) ==
  /\ ~crashed
  /\ pc[r] = "receiving"
  /\ clientBody' = [clientBody EXCEPT ![r] = raw]
  /\ LET p == PrepareRequest(raw, conversationId[r], conversationSignatures) IN
       /\ requestData' = [requestData EXCEPT ![r] = p.requestData]
       /\ body' = [body EXCEPT ![r] = p.body]
  /\ attempt' = [attempt EXCEPT ![r] = 0]
  /\ requests' = [requests EXCEPT ![r] = 1]
  /\ pc' = [pc EXCEPT ![r] = "requesting"]
  /\ UNCHANGED <<conversationSignatures, clock, crashed, conversationId, clientReq, clientClosed, waits,
                 proxyRes, accumulatedToolCalls, clientRes, result, upstreamLog>>

\* ------------------------------------------------------------------------
\* makeRequestWithRetry and the delivery of its outcome
\* ------------------------------------------------------------------------
ProxyErrorBody(message) ==
  JSONstringify(JObj([k \in {"error"} |->
    JObj([j \in {"message", "type", "code"} |->
      CASE j = "message" -> JStr(message)
        [] j = "type" -> JStr("proxy_error")
        [] OTHER -> JNull])]))

\* The .then of the handler on a result that is not streaming: what the
\* client response becomes.
DeliverResult(res) ==
  IF res.statusCode >= 400
  THEN LET convertedBuffer == convertGeminiErrorToOpenAI(res.decompressedData) IN
       [headersSent |-> TRUE, statusCode |-> res.statusCode,
        headers |-> [res.headers EXCEPT
                       !.content_length = IF @ = NoBytes THEN @ ELSE convertedBuffer,
                       !.content_encoding = ""],
        written |-> <<convertedBuffer>>, ended |-> TRUE]
  ELSE [headersSent |-> TRUE, statusCode |-> res.statusCode, headers |-> res.headers,
        written |-> <<res.responseData>>, ended |-> TRUE]

\* A variant whose writeHead does not throw on headers already sent: the
\* retry's response goes on into the client response of the attempt before.
UpstreamResponseResend(r, statusCode, headers) ==
  /\ ~crashed
  /\ pc[r] = "requesting"
  /\ proxyRes' = [proxyRes EXCEPT ![r] =
                    [statusCode |-> statusCode, headers |-> headers, responseBody |-> <<>>]]
  /\ accumulatedToolCalls' = [accumulatedToolCalls EXCEPT ![r] = <<>>]
  /\ IF isStreaming(r)
     THEN clientRes' = [clientRes EXCEPT ![r] =
                          [@ EXCEPT !.headersSent = TRUE, !.statusCode = statusCode,
                                    !.headers = headers]]
     ELSE UNCHANGED clientRes
  /\ pc' = [pc EXCEPT ![r] = "responding"]
  /\ UNCHANGED <<conversationSignatures, clock, crashed, conversationId, clientReq, clientClosed,
                 requestData, body, attempt, requests, waits, result, clientBody, upstreamLog>>

\* The https.request callback: an upstream response begins.  In streaming
\* mode its status and headers go to the client at once; writeHead throws
\* when the client's headers were already sent, inside an event callback.
UpstreamResponse(r, statusCode, headers) ==
  /\ ~crashed
  /\ pc[r] = "requesting"
  /\ proxyRes' = [proxyRes EXCEPT ![r] =
                    [statusCode |-> statusCode, headers |-> headers, responseBody |-> <<>>]]
  /\ accumulatedToolCalls' = [accumulatedToolCalls EXCEPT ![r] = <<>>]
  /\ IF isStreaming(r)
     THEN IF clientRes[r].headersSent
          THEN /\ crashed' = TRUE
               /\ UNCHANGED clientRes
          ELSE /\ clientRes' = [clientRes EXCEPT ![r] =
                                  [@ EXCEPT !.headersSent = TRUE, !.statusCode = statusCode,
                                            !.headers = headers]]
               /\ UNCHANGED crashed
     ELSE UNCHANGED <<clientRes, crashed>>
  /\ pc' = [pc EXCEPT ![r] = "responding"]
  /\ UNCHANGED <<conversationSignatures, clock, conversationId, clientReq, clientClosed, requestData, body,
                 attempt, requests, waits, result, clientBody, upstreamLog>>

\* A variant that parses and accumulates first and forwards the chunk only
\* when that did not fail.
StreamDataParsedFirst(r, chunk) ==
  /\ ~crashed
  /\ pc[r] = "responding"
  /\ isStreaming(r)
  /\ Len(proxyRes[r].responseBody) < MaxChunks
  /\ proxyRes' = [proxyRes EXCEPT ![r].responseBody = Append(@, chunk)]
  /\ LET st == extractSignaturesFromStreamChunks(parseSSEChunks(chunk),
                  accumulatedToolCalls[r], conversationId[r],
                  conversationSignatures, clock) IN
       /\ clientRes' = IF st.thrown THEN clientRes
                       ELSE [clientRes EXCEPT ![r].written = Append(@, chunk)]
       /\ accumulatedToolCalls' = [accumulatedToolCalls EXCEPT ![r] = st.acc]
       /\ conversationSignatures' = st.cs
  /\ UNCHANGED <<clock, crashed, pc, conversationId, clientReq, clientClosed, requestData, body, attempt,
                 requests, waits, result, clientBody, upstreamLog>>

\* proxyRes 'data' of a streaming response: the chunk is written to the
\* client, buffered, then parsed and accumulated (a throw there is caught).
StreamData(r, chunk) ==
  /\ ~crashed
  /\ pc[r] = "responding"
  /\ isStreaming(r)
  /\ Len(proxyRes[r].responseBody) < MaxChunks
  /\ proxyRes' = [proxyRes EXCEPT ![r].responseBody = Append(@, chunk)]
  /\ LET st == extractSignaturesFromStreamChunks(parseSSEChunks(chunk),
                  accumulatedToolCalls[r], conversationId[r],
                  conversationSignatures, clock) IN
       /\ clientRes' = [clientRes EXCEPT ![r].written = Append(@, chunk)]
       /\ accumulatedToolCalls' = [accumulatedToolCalls EXCEPT ![r] = st.acc]
       /\ conversationSignatures' = st.cs
  /\ UNCHANGED <<clock, crashed, pc, conversationId, clientReq, clientClosed, requestData, body, attempt,
                 requests, waits, result, clientBody, upstreamLog>>

\* proxyRes 'data' of a buffered response (its body comes as one chunk).
BufferedData(r, chunk) ==
  /\ ~crashed
  /\ pc[r] = "responding"
  /\ ~isStreaming(r)
  /\ proxyRes[r].responseBody = <<>>
  /\ proxyRes' = [proxyRes EXCEPT ![r].responseBody = Append(@, chunk)]
  /\ UNCHANGED <<conversationSignatures, clock, crashed, pc, conversationId, clientReq, clientClosed,
                 requestData, body, attempt, requests, waits, accumulatedToolCalls,
                 clientRes, result, clientBody, upstreamLog>>

\* Buffer.concat(responseBody) of a buffered response.
ConcatBody(chunks) == IF chunks = <<>> THEN RawText("") ELSE chunks[1]

\* proxyRes 'end' of a streaming response: the client response is ended and
\* the result, marked streaming, is returned without a look at its status.
StreamEnd(r) ==
  /\ ~crashed
  /\ pc[r] = "responding"
  /\ isStreaming(r)
  /\ clientRes' = [clientRes EXCEPT ![r].ended = TRUE]
  /\ result' = [result EXCEPT ![r] =
                  [kind |-> "returned", statusCode |-> proxyRes[r].statusCode,
                   headers |-> proxyRes[r].headers,
                   responseData |-> proxyRes[r].responseBody,
                   decompressedData |-> proxyRes[r].responseBody,
                   streaming |-> TRUE]]
  /\ pc' = [pc EXCEPT ![r] = "done"]
  /\ upstreamLog' = [upstreamLog EXCEPT ![r] =
                       Append(@, [kind |-> "response", statusCode |-> proxyRes[r].statusCode,
                                  headers |-> proxyRes[r].headers,
                                  body |-> proxyRes[r].responseBody,
                                  forwarded |-> TRUE])]
  /\ UNCHANGED <<conversationSignatures, clock, crashed, conversationId, clientReq, clientClosed, requestData,
                 body, attempt, requests, waits, proxyRes, accumulatedToolCalls,
                 clientBody>>

\* The result a buffered response resolves with.
BufferedResult(res) ==
  LET responseData == ConcatBody(res.responseBody) IN
  [kind |-> "returned", statusCode |-> res.statusCode, headers |-> res.headers,
   responseData |-> responseData,
   decompressedData |-> IF res.headers.content_encoding = "gzip"
                        THEN gunzipSync(responseData) ELSE responseData,
   streaming |-> FALSE]

\* The delay the loop waits after this result before another attempt, NoRetry
\* when it returns the result instead.
NoRetry == [t |-> "none"]
RetryDelay(res, att) ==
  IF res.statusCode = 429 /\ Retries429(att) THEN Delay429(res.headers.retry_after, att)
  ELSE IF res.statusCode = 503 /\ Retries503(att) THEN Delay503(att)
  ELSE NoRetry

\* requestData?.messages?.some(m => m.role === 'tool') from message i on:
\* a boolean, or Thrown on an entry that is null.
RECURSIVE SomeToolMessage(_, _)
SomeToolMessage(msgs, i) ==
  IF i > Len(msgs) THEN JBool(FALSE)
  ELSE IF IsNullish(msgs[i]) THEN Thrown
  ELSE IF Get(msgs[i], "role") = JStr("tool") THEN JBool(TRUE)
  ELSE SomeToolMessage(msgs, i + 1)

\* const hasToolResults = requestData?.messages?.some(...): Thrown when
\* messages has no method some.
hasToolResults(data) ==
  LET messages == OptGet(data, "messages") IN
  IF IsNullish(messages) THEN JUndef
  ELSE IF ~IsArray(messages) THEN Thrown
  ELSE SomeToolMessage(messages.v, 1)

\* requestData.tools.forEach((tool, idx) => ... tool.function?.name ...) of
\* the error report throws: tools has no method forEach, or an entry is null.
ToolsReportThrows(data) ==
  LET tools == OptGet(data, "tools") IN
  /\ Truthy(tools)
  /\ \/ ~IsArray(tools)
     \/ \E i \in DOMAIN tools.v : IsNullish(tools.v[i])

\* The message of the exception the statements after the await raise inside
\* the try block for this result, "" when they raise none: the tool-result
\* report of a 2xx result, the tools report of an error result that is not
\* retried by its status.
NoError == ""
ReportError(res, att, data) ==
  IF res.statusCode >= 200 /\ res.statusCode < 300
  THEN IF hasToolResults(data) = Thrown
       THEN "requestData?.messages?.some: TypeError" ELSE NoError
  ELSE IF RetryDelay(res, att) # NoRetry THEN NoError
  ELSE IF res.statusCode >= 400 /\ ToolsReportThrows(data)
       THEN "requestData.tools.forEach: TypeError" ELSE NoError

\* The catch branch of the retry loop on an exception of the try block: it
\* waits and goes on, or rethrows on the last attempt, and then the handler's
\* .catch answers 500.  Its writeHead throws when the headers were sent
\* already: the rejection stays unhandled, which ends the process or not
\* (unhandled), as the runtime decides.
Caught(r, message, unhandled) ==
  IF GivesUp(attempt[r])
  THEN /\ result' = [result EXCEPT ![r] = [kind |-> "thrown", message |-> message]]
       /\ pc' = [pc EXCEPT ![r] = "done"]
       /\ IF clientRes[r].headersSent
          THEN /\ crashed' = unhandled
               /\ UNCHANGED clientRes
          ELSE /\ clientRes' = [clientRes EXCEPT ![r] =
                                  [headersSent |-> TRUE, statusCode |-> 500,
                                   headers |-> NoHeaders,
                                   written |-> <<ProxyErrorBody(message)>>,
                                   ended |-> TRUE]]
               /\ UNCHANGED crashed
       /\ UNCHANGED waits
  ELSE /\ waits' = [waits EXCEPT ![r] = Append(@, DelayError(attempt[r]))]
       /\ pc' = [pc EXCEPT ![r] = "backoff"]
       /\ UNCHANGED <<result, clientRes, crashed>>

\* proxyRes 'end' of a buffered response and what follows it without another
\* event in between: extraction on 2xx, the reports, then a backoff timer or
\* the return of the result and its delivery to the client.  gunzipSync
\* throws in the event callback on a body that is not gzip.
BufferedEnd(r) ==
  /\ ~crashed
  /\ pc[r] = "responding"
  /\ ~isStreaming(r)
  /\ LET res == BufferedResult(proxyRes[r])
         delay == RetryDelay(res, attempt[r])
         error == ReportError(res, attempt[r], requestData[r])
     IN IF proxyRes[r].headers.content_encoding = "gzip" /\ ~ConcatBody(proxyRes[r].responseBody).gz
        THEN /\ crashed' = TRUE
             /\ UNCHANGED <<conversationSignatures, pc, waits, result, clientRes,
                            upstreamLog>>
        ELSE /\ upstreamLog' = [upstreamLog EXCEPT ![r] =
                                  Append(@, [kind |-> "response",
                                             statusCode |-> res.statusCode,
                                             headers |-> res.headers,
                                             body |-> res.responseData,
                                             forwarded |-> FALSE])]
             /\ conversationSignatures' =
                  IF res.statusCode >= 200 /\ res.statusCode < 300
                  THEN extractThoughtSignatures(res.decompressedData, conversationId[r],
                                                conversationSignatures, clock)
                  ELSE conversationSignatures
             /\ IF error # NoError
                THEN Caught(r, error, FALSE)
                ELSE IF delay # NoRetry
                THEN /\ waits' = [waits EXCEPT ![r] = Append(@, delay)]
                     /\ pc' = [pc EXCEPT ![r] = "backoff"]
                     /\ UNCHANGED <<result, clientRes, crashed>>
                ELSE /\ result' = [result EXCEPT ![r] = res]
                     /\ clientRes' = [clientRes EXCEPT ![r] = DeliverResult(res)]
                     /\ pc' = [pc EXCEPT ![r] = "done"]
                     /\ UNCHANGED <<waits, crashed>>
  /\ UNCHANGED <<clock, conversationId, clientReq, clientClosed, requestData, body, attempt, requests,
                 proxyRes, accumulatedToolCalls, clientBody>>

\* The failures that reject an attempt: before the response begins, and
\* once it has begun.
ConnectErrors == {"connect ECONNREFUSED", "Connection timeout after 30s"}
ResponseErrors == {"read ECONNRESET", "Connection timeout after 30s",
                   "Response timeout after 60s", "Idle timeout - no data for 30s"}

\* The promise of the attempt is rejected (proxyReq 'error' or a timeout) and
\* the catch branch takes over.
RequestError(r, message, unhandled) ==
  /\ pc[r] \in {"requesting", "responding"}
  /\ ~crashed
  /\ message \in (IF pc[r] = "requesting" THEN ConnectErrors ELSE ResponseErrors)
  /\ upstreamLog' = [upstreamLog EXCEPT ![r] =
                       Append(@, [kind |-> "error", message |-> message,
                                  forwarded |-> clientRes[r].headersSent])]
  /\ Caught(r, message, unhandled)
  /\ UNCHANGED <<conversationSignatures, clock, conversationId, clientReq, clientClosed, requestData, body,
                 attempt, requests, proxyRes, accumulatedToolCalls, clientBody>>

\* The backoff timer fires: the loop goes to its next attempt and issues a
\* new https.request.
BackoffElapsed(r) ==
  /\ ~crashed
  /\ pc[r] = "backoff"
  /\ attempt[r] + 1 < maxRetries
  /\ attempt' = [attempt EXCEPT ![r] = @ + 1]
  /\ requests' = [requests EXCEPT ![r] = @ + 1]
  /\ pc' = [pc EXCEPT ![r] = "requesting"]
  /\ UNCHANGED <<conversationSignatures, clock, crashed, conversationId, clientReq, clientClosed, requestData,
                 body, waits, proxyRes, accumulatedToolCalls, clientRes, result,
                 clientBody, upstreamLog>>

\* Time passes: Date.now() grows by d, within MaxClock hours of the start.
Tick(d) ==
  /\ clock + d <= MaxClock * OneHourMs + MaxSignatures
  /\ clock' = clock + d
  /\ UNCHANGED <<conversationSignatures, crashed, pc, conversationId, clientReq, clientClosed, requestData,
                 body, attempt, requests, waits, proxyRes, accumulatedToolCalls,
                 clientRes, result, clientBody, upstreamLog>>

\* The client's connection closes while its request is under way.  The
\* handler listens to 'data' and 'end' of clientReq and to nothing of
\* clientRes: no callback runs, and later writes to clientRes are dropped
\* by the runtime without an exception.
ClientClose(r) ==
  /\ ~crashed
  /\ pc[r] \in {"requesting", "responding", "backoff"}
  /\ ~clientClosed[r]
  /\ clientClosed' = [clientClosed EXCEPT ![r] = TRUE]
  /\ UNCHANGED <<conversationSignatures, clock, crashed, pc, conversationId, clientReq,
                 requestData, body, attempt, requests, waits, proxyRes,
                 accumulatedToolCalls, clientRes, result, clientBody, upstreamLog>>

\* ------------------------------------------------------------------------
\* Inputs: what clients send and what the upstream answers
\* ------------------------------------------------------------------------
\* { id, type: 'function', function: { name: 'f' } }
ToolCall(id) ==
  JObj("id" :> JStr(id) @@ "type" :> JStr("function")
       @@ "function" :> JObj("name" :> JStr("f") @@ "arguments" :> JStr("{}")))

\* A tool call that comes with extra content of its own.
ToolCallWithContent(id, signature) ==
  With(ToolCall(id), "extra_content",
       JObj("google" :> JObj("thought_signature" :> JStr(signature))
            @@ "vendor" :> JStr("x")))

AssistantMessage(calls) ==
  JObj("role" :> JStr("assistant") @@ "content" :> JNull @@ "tool_calls" :> JArr(calls))
ToolMessage(id) ==
  JObj("role" :> JStr("tool") @@ "tool_call_id" :> JStr(id) @@ "content" :> JStr("ok"))
UserMessage == JObj("role" :> JStr("user") @@ "content" :> JStr("hi"))

ChatRequest(messages, stream) ==
  JsonText(JObj("model" :> JStr("gemini-3-pro-preview") @@ "stream" :> JBool(stream)
                @@ "messages" :> JArr(messages)), "spaced")

\* Request bodies of the injection scenarios: two parallel calls, a call with
\* content of its own first, a history with a null entry, and bytes that are
\* not JSON.
InjectBodies ==
  {ChatRequest(<<UserMessage, AssistantMessage(<<ToolCall("A"), ToolCall("B")>>),
                 ToolMessage("A"), ToolMessage("B")>>, FALSE),
   ChatRequest(<<AssistantMessage(<<ToolCallWithContent("B", "old"), ToolCall("A")>>)>>,
               FALSE),
   ChatRequest(<<AssistantMessage(<<ToolCall("A")>>), JNull>>, FALSE),
   RawText("ping")}

\* The clients of the model: one that names its conversation, one that does not.
Clients ==
  {[explicit |-> "a", forwarded |-> "", remote |-> "10.0.0.1", agent |-> "droid"],
   [explicit |-> "", forwarded |-> "", remote |-> "10.0.0.1", agent |-> "droid"]}

\* The signature the upstream issues to request r for a tool call.
IssuedSignature(r, id) == "sig-" \o id \o "-" \o ToString(r)
IssuedCall(r, id) ==
  With(ToolCall(id), "extra_content",
       JObj("google" :> JObj("thought_signature" :> JStr(IssuedSignature(r, id)))))

Completion(calls) ==
  JsonText(JObj("choices" :> JArr(<<JObj("index" :> JNum(0)
                   @@ "finish_reason" :> JStr("tool_calls")
                   @@ "message" :> JObj("role" :> JStr("assistant")
                                        @@ "tool_calls" :> JArr(calls)))>>)), "spaced")

\* 2xx bodies answering request r: two signed calls, or a call without one.
Completions(r) ==
  {Completion(<<IssuedCall(r, "A"), IssuedCall(r, "B")>>),
   Completion(<<ToolCall("A")>>)}

\* ------------------------------------------------------------------------
\* Specification of the buffered pipeline up to the end of each request's
\* first attempt, with successful answers: requests of two conversations,
\* injection, extraction and the sweep, interleaved.
\* ------------------------------------------------------------------------
Next ==
  \/ \E r \in Reqs, req \in Clients : Arrive(r, req)
  \/ \E r \in Reqs, raw \in InjectBodies : ClientEnd(r, raw)
  \/ \E r \in Reqs : UpstreamResponse(r, 200, NoHeaders)
  \/ \E r \in Reqs : \E chunk \in Completions(r) : BufferedData(r, chunk)
  \/ \E r \in Reqs : BufferedEnd(r)

Spec == Init /\ [][Next]_vars

\* ------------------------------------------------------------------------
\* Specification of the retry loop of one buffered request: every status
\* class, Retry-After as seconds and as a date, transport failures,
\* and requests whose tools or messages the reports cannot walk.
\* ------------------------------------------------------------------------
\* A request with a tools field that is an object, one with a null message,
\* and a well-formed one with a tool result.
RetryBodies ==
  {ChatRequest(<<UserMessage, AssistantMessage(<<ToolCall("A")>>), ToolMessage("A")>>, FALSE),
   JsonText(JObj("model" :> JStr("gemini-3-pro-preview")
                 @@ "messages" :> JArr(<<UserMessage>>)
                 @@ "tools" :> JObj("name" :> JStr("f"))), "spaced"),
   ChatRequest(<<AssistantMessage(<<ToolCall("A")>>), JNull>>, FALSE)}

RetryAfterDate == <<"W", "e", "d", ",", " ", "2", "1">>

\* Status and headers of the upstream answers.
Answers ==
  {[statusCode |-> 200, headers |-> NoHeaders],
   [statusCode |-> 400, headers |-> NoHeaders],
   [statusCode |-> 429, headers |-> NoHeaders],
   [statusCode |-> 429, headers |-> [NoHeaders EXCEPT !.retry_after = <<"3">>]],
   [statusCode |-> 429, headers |-> [NoHeaders EXCEPT !.retry_after = RetryAfterDate]],
   [statusCode |-> 500, headers |-> NoHeaders],
   [statusCode |-> 503, headers |-> NoHeaders]}

\* The upstream's error body for the n-th attempt.
ErrorBody(statusCode, n) ==
  JsonText(JObj("error" :> JObj("code" :> JNum(statusCode)
                                @@ "message" :> JStr("upstream said no, attempt " \o ToString(n))
                                @@ "status" :> JStr("UPSTREAM_ERROR"))), "spaced")

\* The bodies that can follow the status and headers received.
AnswerBodies(r) ==
  IF proxyRes[r].statusCode = 200
  THEN {Completion(<<IssuedCall(r, "A")>>)}
  ELSE {ErrorBody(proxyRes[r].statusCode, requests[r])}

\* A response that has begun fails only while a plain 200 is being received,
\* by one of the two timers of the response.
Stalls(r) == proxyRes[r].statusCode = 200 /\ proxyRes[r].headers = NoHeaders
StallErrors == {"Response timeout after 60s", "Idle timeout - no data for 30s"}

RetryClient == [explicit |-> "a", forwarded |-> "", remote |-> "10.0.0.1", agent |-> "droid"]

NextRetry ==
  \/ Arrive(1, RetryClient)
  \/ \E raw \in RetryBodies : ClientEnd(1, raw)
  \/ \E a \in Answers : UpstreamResponse(1, a.statusCode, a.headers)
  \/ \E chunk \in AnswerBodies(1) : BufferedData(1, chunk)
  \/ proxyRes[1].responseBody # <<>> /\ BufferedEnd(1)
  \/ \E message \in ConnectErrors \cup StallErrors :
       /\ pc[1] = "responding" => Stalls(1) /\ message \in StallErrors
       /\ RequestError(1, message, FALSE)
  \/ BackoffElapsed(1)

SpecRetry == Init /\ [][NextRetry]_vars

\* ------------------------------------------------------------------------
\* Specification of one streaming request: the deltas of a tool call arrive
\* chunk by chunk, the stream ends or fails, and the retry loop goes on.
\* ------------------------------------------------------------------------
StreamRequest == ChatRequest(<<UserMessage>>, TRUE)

\* The deltas of tool call c1 at index 0: its id, its arguments in two
\* fragments, its signature; and call c2 at index 1 in a single delta.
DeltaId == JObj("index" :> JNum(0) @@ "id" :> JStr("c1") @@ "type" :> JStr("function")
                @@ "function" :> JObj("name" :> JStr("f") @@ "arguments" :> JStr("")))
DeltaArgs(fragment) ==
  JObj("index" :> JNum(0) @@ "function" :> JObj("arguments" :> JStr(fragment)))
DeltaSignature ==
  JObj("index" :> JNum(0)
       @@ "extra_content" :> JObj("google" :> JObj("thought_signature" :> JStr("tok1"))))
DeltaWhole ==
  JObj("index" :> JNum(1) @@ "id" :> JStr("c2")
       @@ "function" :> JObj("name" :> JStr("g") @@ "arguments" :> JStr("{}"))
       @@ "extra_content" :> JObj("google" :> JObj("thought_signature" :> JStr("tok2"))))

\* The line "data: {...}" of an event with these tool-call deltas.
EventLine(deltas) ==
  [data |-> TRUE,
   payload |-> JSONstringify(JObj("choices" :> JArr(<<JObj("index" :> JNum(0)
                 @@ "delta" :> JObj("tool_calls" :> JArr(deltas)))>>)))]
DoneLine == [data |-> TRUE, payload |-> DoneMarker]
CommentLine == [data |-> FALSE, payload |-> RawText(": keep-alive")]

\* The network chunks of the upstream: one event each, the last event with
\* the end marker, and a keep-alive followed by an event with a null delta.
StreamAlphabet ==
  {<<EventLine(<<DeltaId>>)>>,
   <<EventLine(<<DeltaArgs("{a:")>>)>>,
   <<EventLine(<<DeltaArgs("1}")>>)>>,
   <<EventLine(<<DeltaSignature>>)>>,
   <<EventLine(<<DeltaWhole>>), DoneLine>>,
   <<CommentLine, EventLine(<<JNull>>)>>}

\* What ends a response that has begun: a reset or one of its two timers.
MidStreamErrors == StallErrors \cup {"read ECONNRESET"}

NextStream ==
  \/ Arrive(1, RetryClient)
  \/ ClientEnd(1, StreamRequest)
  \/ UpstreamResponse(1, 200, NoHeaders)
  \/ \E chunk \in StreamAlphabet : StreamData(1, chunk)
  \/ StreamEnd(1)
  \/ \E message \in MidStreamErrors \cup {"connect ECONNREFUSED"}, unhandled \in BOOLEAN :
       /\ clientRes[1].headersSent
       /\ pc[1] = "responding" => message \in MidStreamErrors
       /\ RequestError(1, message, unhandled)
  \/ BackoffElapsed(1)

SpecStream == Init /\ [][NextStream]_vars

\* ------------------------------------------------------------------------
\* Injection: what the request handler sends compared with what it received
\* ------------------------------------------------------------------------
Prepared(r) == pc[r] \notin {"new", "receiving"}

\* The messages array of a body, <<>> when there is none.
MessagesOf(bytes) ==
  IF Parses(bytes) /\ IsArray(OptGet(bytes.content, "messages"))
  THEN Get(bytes.content, "messages").v ELSE <<>>

\* An assistant message that carries tool calls.
CarriesToolCalls(msg) ==
  /\ ~IsNullish(msg)
  /\ Get(msg, "role") = JStr("assistant")
  /\ IsArray(Get(msg, "tool_calls"))

CallsOf(msg) == Get(msg, "tool_calls").v

\* toolCall.extra_content.google.thought_signature, JUndef when it has none
TokenOf(toolCall) ==
  OptGet(OptGet(OptGet(toolCall, "extra_content"), "google"), "thought_signature")

HasRecord(cs, conv, id) == conv \in DOMAIN cs /\ SigIndex(cs[conv], id) # {}

\* C1: in every request sent upstream, each tool call at position >= 1 of an
\* assistant message is the tool call as received: nothing is injected into
\* it, whether or not the store holds a signature for its id.
C1_OnlyFirstCallInjected ==
  \A r \in Reqs : Prepared(r) =>
    \A i \in DOMAIN MessagesOf(clientBody[r]) :
      CarriesToolCalls(MessagesOf(clientBody[r])[i]) =>
        /\ i \in DOMAIN MessagesOf(body[r])
        /\ CarriesToolCalls(MessagesOf(body[r])[i])
        /\ Len(CallsOf(MessagesOf(body[r])[i])) = Len(CallsOf(MessagesOf(clientBody[r])[i]))
        /\ \A j \in 2 .. Len(CallsOf(MessagesOf(clientBody[r])[i])) :
             CallsOf(MessagesOf(body[r])[i])[j] = CallsOf(MessagesOf(clientBody[r])[i])[j]

\* A request went out with a stored signature on its first call and nothing
\* on its second, for whose id the conversation holds a record.
C1_Witness ==
  \E r \in Reqs : \E i \in DOMAIN MessagesOf(body[r]) :
    /\ Prepared(r)
    /\ CarriesToolCalls(MessagesOf(body[r])[i])
    /\ Len(CallsOf(MessagesOf(body[r])[i])) >= 2
    /\ LET calls == CallsOf(MessagesOf(body[r])[i]) IN
         /\ Truthy(TokenOf(calls[1]))
         /\ TokenOf(calls[1]) # JStr(SkipValidator)
         /\ ~Has(calls[2], "extra_content")
         /\ HasRecord(conversationSignatures, conversationId[r], Get(calls[2], "id"))

\* The signature injection gives the first call with this id.
ExpectedSignature(cs, conv, id) ==
  IF HasRecord(cs, conv, id)
  THEN cs[conv][CHOOSE k \in SigIndex(cs[conv], id) : TRUE].signature
  ELSE JStr(SkipValidator)

\* C2 (as claimed): when a request is prepared, the first tool call of every
\* assistant message with tool calls goes out with the signature stored for
\* its id in the request's conversation, or with the sentinel when there is
\* no record; it never goes out without one.
C2_FirstCallAlwaysSigned ==
  [][\A r \in Reqs : pc[r] = "receiving" /\ pc'[r] = "requesting" =>
       \A i \in DOMAIN MessagesOf(clientBody'[r]) :
         LET msg == MessagesOf(clientBody'[r])[i] IN
         (CarriesToolCalls(msg) /\ CallsOf(msg) # <<>>) =>
            /\ i \in DOMAIN MessagesOf(body'[r])
            /\ TokenOf(CallsOf(MessagesOf(body'[r])[i])[1])
                 = ExpectedSignature(conversationSignatures, conversationId[r],
                                     Get(CallsOf(msg)[1], "id"))]_vars

\* C4: a signature on the first call of a request sent upstream that the
\* client did not send itself is the sentinel or a signature the upstream
\* issued, for that id, to a request of the same conversation.
C4_ConversationIsolation ==
  \A r \in Reqs : Prepared(r) =>
    \A i \in DOMAIN MessagesOf(body[r]) :
      LET msg == MessagesOf(body[r])[i] IN
      (CarriesToolCalls(msg) /\ CallsOf(msg) # <<>>
         /\ TokenOf(CallsOf(msg)[1]) # TokenOf(CallsOf(MessagesOf(clientBody[r])[i])[1])) =>
        \/ TokenOf(CallsOf(msg)[1]) = JStr(SkipValidator)
        \/ \E q \in Reqs :
             /\ conversationId[q] = conversationId[r]
             /\ Get(CallsOf(msg)[1], "id").t = "string"
             /\ TokenOf(CallsOf(msg)[1])
                  = JStr(IssuedSignature(q, Get(CallsOf(msg)[1], "id").v))

\* A request of one conversation went out with the sentinel on a call for
\* whose id another conversation holds a signature and its own none.
C4_Witness ==
  \E r \in Reqs, q \in Reqs : \E i \in DOMAIN MessagesOf(body[r]) :
    /\ Prepared(r) /\ Prepared(q)
    /\ conversationId[q] # conversationId[r]
    /\ CarriesToolCalls(MessagesOf(body[r])[i])
    /\ LET call == CallsOf(MessagesOf(body[r])[i])[1] IN
         /\ TokenOf(call) = JStr(SkipValidator)
         /\ HasRecord(conversationSignatures, conversationId[q], Get(call, "id"))
         /\ ~HasRecord(conversationSignatures, conversationId[r], Get(call, "id"))

\* ------------------------------------------------------------------------
\* The retry loop: attempts, waits and what the client receives
\* ------------------------------------------------------------------------
NonStreaming(r) == Prepared(r) /\ ~isStreaming(r)

\* The i-th attempt ended with a response of this status.
Answered(r, i, statusCode) ==
  /\ i \in DOMAIN upstreamLog[r]
  /\ upstreamLog[r][i].kind = "response"
  /\ upstreamLog[r][i].statusCode = statusCode

\* ... and that response had no Retry-After header.
AnsweredPlain(r, i, statusCode) ==
  Answered(r, i, statusCode) /\ upstreamLog[r][i].headers.retry_after = NoHeader

\* After its i-th attempt the request waits for the next or has issued it.
GoesOn(r, i) == requests[r] > i \/ (requests[r] = i /\ pc[r] = "backoff")

\* A header value made of decimal digits, and the number it writes.
AllDigits(h) == h # <<>> /\ \A k \in DOMAIN h : IsDigit(h[k])
RECURSIVE Decimal(_, _)
Decimal(h, n) == IF n = 0 THEN 0 ELSE 10 * Decimal(h, n - 1) + DigitOf(h[n])

\* The 429 backoff sequence, in seconds.
BackoffSeconds429 == <<2, 5, 10, 20, 40>>

C6_Outcomes429 ==
  \A r \in Reqs : NonStreaming(r) =>
    /\ (AnsweredPlain(r, 1, 429) /\ Answered(r, 2, 200)) =>
         /\ Len(upstreamLog[r]) = 2 /\ requests[r] = 2
         /\ waits[r] = <<JNum(2000)>>
         /\ clientRes[r].statusCode = 200
         /\ clientRes[r].written = <<upstreamLog[r][2].body>>
    /\ (\A i \in 1 .. 5 : AnsweredPlain(r, i, 429)) =>
         /\ Len(upstreamLog[r]) = 5 /\ requests[r] = 5
         /\ clientRes[r].statusCode = 429
         /\ clientRes[r].written = <<convertGeminiErrorToOpenAI(upstreamLog[r][5].body)>>

\* C7 (as claimed): a non-streaming request answered 503 every time waits
\* 1, 2, then 4 seconds between its attempts and then returns the last 503,
\* status and body.
C7_Policy503 ==
  \A r \in Reqs : NonStreaming(r) =>
    \A n \in DOMAIN upstreamLog[r] :
      (\A i \in 1 .. n : Answered(r, i, 503)) =>
        /\ n <= 3 => n \in DOMAIN waits[r] /\ waits[r][n] = JNum(1000 * 2 ^ (n - 1))
        /\ n = 4 => /\ Len(waits[r]) = 3
                    /\ result[r].kind = "returned"
                    /\ result[r].statusCode = 503
                    /\ result[r].responseData = upstreamLog[r][4].body
                    /\ clientRes[r].statusCode = 503

\* C8 (as claimed): a response of a non-streaming request with a 4xx/5xx
\* status other than 429 and 503 is the request's last attempt and reaches
\* the client with that status.
C8_NoRetryOtherStatus ==
  \A r \in Reqs : NonStreaming(r) =>
    \A i \in DOMAIN upstreamLog[r] :
      (/\ upstreamLog[r][i].kind = "response"
       /\ upstreamLog[r][i].statusCode >= 400
       /\ upstreamLog[r][i].statusCode \notin {429, 503}) =>
        /\ Len(upstreamLog[r]) = i /\ requests[r] = i
        /\ pc[r] = "done"
        /\ clientRes[r].statusCode = upstreamLog[r][i].statusCode

\* {error: {message, type: 'proxy_error', code: null}}
ProxyErrorJson(message) ==
  JSONstringify(JObj("error" :> JObj("message" :> JStr(message)
                                     @@ "type" :> JStr("proxy_error")
                                     @@ "code" :> JNull)))

\* C9: a transport failure of attempt i (0-based) before anything was
\* forwarded is followed by a wait of 2^i seconds and another attempt while
\* fewer than 5 attempts were made; there are never more than 5 attempts, and
\* when the fifth fails the client receives 500 with the proxy_error body
\* that carries the failure's message.
C9_TransportFailures ==
  \A r \in Reqs : Prepared(r) =>
    /\ requests[r] <= 5
    /\ \A i \in DOMAIN upstreamLog[r] :
         (upstreamLog[r][i].kind = "error" /\ ~upstreamLog[r][i].forwarded) =>
           IF i < 5
           THEN /\ i \in DOMAIN waits[r]
                /\ waits[r][i] = JNum(1000 * 2 ^ (i - 1))
                /\ GoesOn(r, i)
           ELSE /\ pc[r] = "done"
                /\ clientRes[r].statusCode = 500
                /\ clientRes[r].written = <<ProxyErrorJson(upstreamLog[r][i].message)>>
                /\ clientRes[r].ended

\* Five attempts failed, by a refused connection, the connection timeout and
\* the two response timers among them; the waits were 1, 2, 4 and 8 seconds
\* and the client has its 500.
C9_Witness ==
  \E r \in Reqs :
    /\ Len(upstreamLog[r]) = 5
    /\ \A i \in 1 .. 5 : upstreamLog[r][i].kind = "error"
    /\ {upstreamLog[r][i].message : i \in 1 .. 5} = ConnectErrors \cup StallErrors
    /\ waits[r] = <<JNum(1000), JNum(2000), JNum(4000), JNum(8000)>>
    /\ clientRes[r].statusCode = 500
    /\ clientRes[r].written = <<ProxyErrorJson(upstreamLog[r][5].message)>>

\* ------------------------------------------------------------------------
\* Streaming: the accumulator, the store and the client's response
\* ------------------------------------------------------------------------
\* The four chunks of call c1, in their order.
ScenarioChunks ==
  <<<<EventLine(<<DeltaId>>)>>, <<EventLine(<<DeltaArgs("{a:")>>)>>,
    <<EventLine(<<DeltaArgs("1}")>>)>>, <<EventLine(<<DeltaSignature>>)>>>>

\* The conversation holds this signature for this id.
Stores(r, id, signature) ==
  /\ HasRecord(conversationSignatures, conversationId[r], id)
  /\ ExpectedSignature(conversationSignatures, conversationId[r], id) = signature

\* C3: after every chunk of a streaming response, each accumulator slot that
\* holds an id and a signature has that pair in the store under the
\* request's conversation, before any later chunk and before the stream
\* ends; after the deltas id c1, two argument fragments, signature tok1 the
\* store holds c1 -> tok1 and the slot's arguments are the fragments in order.
C3_IncrementalCommit ==
  \A r \in Reqs : (Prepared(r) /\ isStreaming(r)) =>
    /\ \A k \in DOMAIN accumulatedToolCalls[r] :
         LET slot == accumulatedToolCalls[r][k]
             token == OptGet(OptGet(slot.extra_content, "google"), "thought_signature")
         IN (Truthy(slot.id) /\ Truthy(token)) => Stores(r, slot.id, token)
    /\ proxyRes[r].responseBody = ScenarioChunks =>
         /\ Stores(r, JStr("c1"), JStr("tok1"))
         /\ accumulatedToolCalls[r][JNum(0)].function.arguments = "{a:1}"

\* The four chunks have arrived, the stream has not ended, and the store
\* holds c1 -> tok1.
C3_Witness ==
  \E r \in Reqs :
    /\ isStreaming(r)
    /\ pc[r] = "responding"
    /\ proxyRes[r].responseBody = ScenarioChunks
    /\ Stores(r, JStr("c1"), JStr("tok1"))
    /\ ~clientRes[r].ended

\* C10 (as claimed): once the status and headers of a streaming request were
\* written to the client, no further upstream attempt is started for it.
C10_TerminalAfterForwarding ==
  [][\A r \in Reqs : (isStreaming(r) /\ clientRes[r].headersSent)
        => requests'[r] = requests[r]]_vars

\* ------------------------------------------------------------------------
\* Progress of one request, buffered or streaming, against an upstream that
\* answers 200 or 503, refuses the connection, or falls silent.  Every
\* attempt ends: its response begins or the connection fails or times out,
\* a response that began ends or one of its timers fires; and every backoff
\* timer fires.
\* ------------------------------------------------------------------------
LiveBodies == {StreamRequest, ChatRequest(<<UserMessage>>, FALSE)}
LiveStatuses == {200, 503}
LiveChunk == <<EventLine(<<DeltaWhole>>), DoneLine>>
IdleTimeout == "Idle timeout - no data for 30s"
Refused == "connect ECONNREFUSED"

\* The response of the attempt begins, or the attempt fails before it does.
AttemptBegins ==
  \/ \E statusCode \in LiveStatuses : UpstreamResponse(1, statusCode, NoHeaders)
  \/ pc[1] = "requesting" /\ \E unhandled \in BOOLEAN : RequestError(1, Refused, unhandled)

\* The response of the attempt ends, or the idle timer ends the attempt.
AttemptEnds ==
  \/ StreamEnd(1)
  \/ BufferedEnd(1)
  \/ pc[1] = "responding" /\ \E unhandled \in BOOLEAN : RequestError(1, IdleTimeout, unhandled)

NextLive ==
  \/ Arrive(1, RetryClient)
  \/ \E raw \in LiveBodies : ClientEnd(1, raw)
  \/ AttemptBegins
  \/ proxyRes[1].responseBody = <<>> /\ StreamData(1, LiveChunk)
  \/ \E chunk \in AnswerBodies(1) : BufferedData(1, chunk)
  \/ AttemptEnds
  \/ BackoffElapsed(1)

SpecLive ==
  /\ Init /\ [][NextLive]_vars
  /\ WF_vars(AttemptBegins) /\ WF_vars(AttemptEnds) /\ WF_vars(BackoffElapsed(1))

\* The client of request r has its status and the end of its body.
Completed(r) == clientRes[r].headersSent /\ clientRes[r].ended

\* C11 (as claimed): every request whose body was received eventually has a
\* completed response on its client connection, whatever the upstream does.
C11_AlwaysAnswered ==
  \A r \in Reqs : Prepared(r) ~> Completed(r)

\* A chunk of r's response arrives in this step.
ChunkArrives(r) ==
  /\ Len(proxyRes'[r].responseBody) = Len(proxyRes[r].responseBody) + 1
  /\ SubSeq(proxyRes'[r].responseBody, 1, Len(proxyRes[r].responseBody))
       = proxyRes[r].responseBody

\* The accumulator after the first n of these chunks, fed one by one.
RECURSIVE AccumulatorAfter(_, _)
AccumulatorAfter(chunks, n) ==
  IF n = 0 THEN <<>>
  ELSE extractSignaturesFromStreamChunks(parseSSEChunks(chunks[n]),
         AccumulatorAfter(chunks, n - 1), "", <<>>, 0).acc

\* C12: in streaming mode a chunk that arrives is appended, as it is, to what
\* the client was written, after the status and headers of the response; what
\* the client was written changes in no other way once something was sent;
\* the accumulator is what feeding the arrived chunks in their order gives;
\* a chunk whose parsing or accumulation fails is forwarded like any other.
C12_PassThrough ==
  [][\A r \in Reqs : isStreaming(r) =>
       /\ ChunkArrives(r) =>
            /\ clientRes[r].headersSent
            /\ clientRes[r].statusCode = proxyRes[r].statusCode
            /\ clientRes[r].headers = proxyRes[r].headers
            /\ clientRes'[r].written =
                 Append(clientRes[r].written,
                        proxyRes'[r].responseBody[Len(proxyRes'[r].responseBody)])
       /\ clientRes'[r].written # clientRes[r].written =>
            ChunkArrives(r) \/ ~clientRes[r].headersSent
       /\ pc'[r] = "responding" =>
            /\ accumulatedToolCalls'[r]
                 = AccumulatorAfter(proxyRes'[r].responseBody, Len(proxyRes'[r].responseBody))
            /\ clientRes'[r].written = proxyRes'[r].responseBody \/ crashed']_vars

\* A chunk whose event has a null delta went to the client, and after it the
\* chunk of call c2, which was accumulated and committed.
C12_Witness ==
  \E r \in Reqs :
    /\ isStreaming(r) /\ pc[r] = "responding"
    /\ clientRes[r].written = <<<<CommentLine, EventLine(<<JNull>>)>>,
                                <<EventLine(<<DeltaWhole>>), DoneLine>>>>
    /\ clientRes[r].written = proxyRes[r].responseBody
    /\ Stores(r, JStr("c2"), JStr("tok2"))

\* ------------------------------------------------------------------------
\* Specification of the store over time: a server that starts from an empty
\* store or from one whose conversation "a" holds MaxSignatures records
\* committed in successive milliseconds, the last of them for call A;
\* buffered and streaming requests that inject and commit while the clock
\* advances by 59 or 61 minutes.
\* ------------------------------------------------------------------------
MinuteMs == OneHourMs \div 60
Durations == {59 * MinuteMs, 61 * MinuteMs}

StoredConversation == "explicit:a"
OldSignature(i) == JStr("old-" \o ToString(i))
FullMap ==
  [i \in 1 .. MaxSignatures |->
     [id |-> IF i = MaxSignatures THEN JStr("A") ELSE JStr("k" \o ToString(i)),
      signature |-> OldSignature(i), timestamp |-> i]]
FullStore == StoredConversation :> FullMap

StoreBody ==
  ChatRequest(<<UserMessage, AssistantMessage(<<ToolCall("A"), ToolCall("B")>>),
                ToolMessage("A"), ToolMessage("B")>>, FALSE)

\* The 2xx body answering request r: signed calls A and B.
StoreCompletion(r) == Completion(<<IssuedCall(r, "A"), IssuedCall(r, "B")>>)

InitStore ==
  /\ conversationSignatures \in {<<>>, FullStore}
  /\ clock = MaxSignatures
  /\ crashed = FALSE
  /\ pc = [r \in Reqs |-> "new"]
  /\ conversationId = [r \in Reqs |-> ""]
  /\ clientReq = [r \in Reqs |-> NoRequest]
  /\ clientClosed = [r \in Reqs |-> FALSE]
  /\ requestData = [r \in Reqs |-> JUndef]
  /\ body = [r \in Reqs |-> NoBytes]
  /\ attempt = [r \in Reqs |-> 0]
  /\ requests = [r \in Reqs |-> 0]
  /\ waits = [r \in Reqs |-> <<>>]
  /\ proxyRes = [r \in Reqs |-> NoResponse]
  /\ accumulatedToolCalls = [r \in Reqs |-> <<>>]
  /\ clientRes = [r \in Reqs |-> FreshClientRes]
  /\ result = [r \in Reqs |-> Pending]
  /\ clientBody = [r \in Reqs |-> NoBytes]
  /\ upstreamLog = [r \in Reqs |-> <<>>]

NextStore ==
  \/ \E r \in Reqs : Arrive(r, RetryClient)
  \/ \E r \in Reqs, raw \in {StoreBody, StreamRequest} : ClientEnd(r, raw)
  \/ \E r \in Reqs : UpstreamResponse(r, 200, NoHeaders)
  \/ \E r \in Reqs : BufferedData(r, StoreCompletion(r))
  \/ \E r \in Reqs : BufferedEnd(r)
  \/ \E r \in Reqs : proxyRes[r].responseBody = <<>> /\ StreamData(r, LiveChunk)
  \/ \E r \in Reqs : StreamEnd(r)
  \/ \E d \in Durations : Tick(d)

SpecStore == InitStore /\ [][NextStore]_vars

\* ------------------------------------------------------------------------
\* The store over time: expiry, the cap, empty maps
\* ------------------------------------------------------------------------
\* The sweep of request r's arrival runs in this step.
SweepRuns(r) == pc[r] = "new" /\ pc'[r] = "receiving"

\* The record rec of conversation c is in store cs, or a later one for its id.
Retained(cs, c, rec) ==
  /\ c \in DOMAIN cs
  /\ \E j \in DOMAIN cs[c] :
       /\ cs[c][j].id = rec.id
       /\ \/ cs[c][j] = rec
          \/ cs[c][j].timestamp >= rec.timestamp

\* C13: a record of a conversation with at most MaxSignatures records stays
\* in the store through every step that ends no later than 59 minutes after
\* its commit, sweeps included, and a request prepared in the meantime goes
\* out with its signature on a first tool call with its id; after a sweep
\* the store holds no record committed 61 minutes before or earlier.
C13_TimeToLive ==
  [][/\ \A c \in DOMAIN conversationSignatures :
          \A i \in DOMAIN conversationSignatures[c] :
            (/\ Len(conversationSignatures[c]) <= MaxSignatures
             /\ clock' <= conversationSignatures[c][i].timestamp + 59 * MinuteMs)
            => Retained(conversationSignatures', c, conversationSignatures[c][i])
     /\ \A r \in Reqs : SweepRuns(r) =>
          \A c \in DOMAIN conversationSignatures' :
            \A j \in DOMAIN conversationSignatures'[c] :
              clock' < conversationSignatures'[c][j].timestamp + 61 * MinuteMs
     /\ \A r \in Reqs : (pc[r] = "receiving" /\ pc'[r] # "receiving") =>
          \A i \in DOMAIN MessagesOf(body'[r]) :
            CarriesToolCalls(MessagesOf(body'[r])[i]) =>
              LET call == CallsOf(MessagesOf(body'[r])[i])[1] IN
                HasRecord(conversationSignatures, conversationId[r], Get(call, "id"))
                => TokenOf(call) = ExpectedSignature(conversationSignatures,
                                      conversationId[r], Get(call, "id"))]_vars

\* The signatures of calls A and B committed 59 minutes after the start are
\* the only records left of the full conversation 59 minutes later: a sweep
\* at that time dropped the older ones and kept them, and the request that
\* arrived with that sweep went out with the signature of A.
C13_Witness ==
  \E r \in Reqs, q \in Reqs :
    /\ r # q /\ Prepared(r)
    /\ conversationId[r] = StoredConversation
    /\ conversationSignatures = StoredConversation :>
         <<[id |-> JStr("A"), signature |-> JStr(IssuedSignature(q, "A")),
            timestamp |-> MaxSignatures + 59 * MinuteMs],
           [id |-> JStr("B"), signature |-> JStr(IssuedSignature(q, "B")),
            timestamp |-> MaxSignatures + 59 * MinuteMs]>>
    /\ clock = MaxSignatures + 118 * MinuteMs
    /\ \E i \in DOMAIN MessagesOf(body[r]) :
         /\ CarriesToolCalls(MessagesOf(body[r])[i])
         /\ TokenOf(CallsOf(MessagesOf(body[r])[i])[1]) = JStr(IssuedSignature(q, "A"))

\* The records of map m with the oldest timestamp.
Oldest(m) == {i \in DOMAIN m : \A j \in DOMAIN m : m[i].timestamp <= m[j].timestamp}

\* Map n holds a record for an id that map m has none for.
HasNewId(m, n) == \E j \in DOMAIN n : SigIndex(m, n[j].id) = {}

\* C14 (as claimed): no conversation's map ever holds more than MaxSignatures
\* records, and a step that inserts a record for a new id into a map of
\* MaxSignatures records leaves MaxSignatures records, without the oldest.
C14_CapOnInsertion ==
  [][\A c \in DOMAIN conversationSignatures' :
       /\ Len(conversationSignatures'[c]) <= MaxSignatures
       /\ (/\ c \in DOMAIN conversationSignatures
           /\ Len(conversationSignatures[c]) = MaxSignatures
           /\ HasNewId(conversationSignatures[c], conversationSignatures'[c]))
          => /\ Len(conversationSignatures'[c]) = MaxSignatures
             /\ \A i \in Oldest(conversationSignatures[c]) :
                  SigIndex(conversationSignatures'[c], conversationSignatures[c][i].id) = {}]_vars

\* C15: the store has no conversation whose map is empty.
C15_NoEmptyMaps ==
  \A c \in DOMAIN conversationSignatures : Len(conversationSignatures[c]) > 0

\* Request r committed signatures to its conversation, by a buffered or a
\* streamed response, and a later sweep, all its records having expired,
\* removed the conversation.
C15_Witness ==
  \E r \in Reqs, q \in Reqs :
    /\ pc[r] = "done" /\ proxyRes[r].responseBody # <<>>
    /\ isStreaming(r) => clientRes[r].written = <<LiveChunk>>
    /\ pc[q] = "receiving"
    /\ conversationId[r] = StoredConversation
    /\ conversationSignatures = <<>>

\* ------------------------------------------------------------------------
\* Specification of the accumulator of one streaming response: the deltas of
\* call c1 in any order and number, among them one whose extra_content
\* carries something else than a signature.
\* ------------------------------------------------------------------------
DeltaOtherContent ==
  JObj("index" :> JNum(0) @@ "extra_content" :> JObj("google" :> EmptyObj))

AccumulatorAlphabet ==
  {<<EventLine(<<DeltaId>>)>>,
   <<EventLine(<<DeltaArgs("{a:")>>)>>,
   <<EventLine(<<DeltaSignature>>)>>,
   <<EventLine(<<DeltaOtherContent>>)>>,
   <<EventLine(<<DeltaWhole, DeltaArgs("1}")>>)>>}

NextAccumulator ==
  \/ Arrive(1, RetryClient)
  \/ ClientEnd(1, StreamRequest)
  \/ UpstreamResponse(1, 200, NoHeaders)
  \/ \E chunk \in AccumulatorAlphabet : StreamData(1, chunk)
  \/ StreamEnd(1)

SpecAccumulator == Init /\ [][NextAccumulator]_vars

\* ------------------------------------------------------------------------
\* The streaming accumulator
\* ------------------------------------------------------------------------
IsPrefix(s, t) == Len(s) <= Len(t) /\ SubSeq(t, 1, Len(s)) = s

\* C16 (as claimed): when a chunk has been merged, every slot is still there,
\* its arguments have the former arguments as a prefix, its id is still set
\* if it was, and its token is still set if it was.
C16_AccumulatorGrows ==
  [][\A r \in Reqs : ChunkArrives(r) =>
       \A k \in DOMAIN accumulatedToolCalls[r] :
         /\ k \in DOMAIN accumulatedToolCalls'[r]
         /\ IsPrefix(accumulatedToolCalls[r][k].function.arguments,
                     accumulatedToolCalls'[r][k].function.arguments)
         /\ Truthy(accumulatedToolCalls[r][k].id)
              => Truthy(accumulatedToolCalls'[r][k].id)
         /\ Truthy(SlotSignature(accumulatedToolCalls[r][k]))
              => Truthy(SlotSignature(accumulatedToolCalls'[r][k]))]_vars

\* ------------------------------------------------------------------------
\* Specification of the buffered extraction: one request whose 2xx answer
\* has two choices, the first with up to MaxCalls tool calls, each well
\* formed or malformed in one of the ways the validation names, the second
\* with the signed call C.
\* ------------------------------------------------------------------------
MaxCalls == 3

SignedCall(id, signature) ==
  With(ToolCall(id), "extra_content",
       JObj("google" :> JObj("thought_signature" :> JStr(signature))))

CallKinds ==
  {SignedCall("A", "sigA"),
   ToolCall("U"),
   JStr("call"),
   JObj("function" :> JObj("name" :> JStr("f")) @@ "extra_content" :> SignatureContent(JStr("s1"))),
   With(SignedCall("N", "s2"), "id", JNum(7)),
   SignedCall(" ", "s3"),
   JObj("id" :> JStr("F") @@ "extra_content" :> SignatureContent(JStr("s4"))),
   JObj("id" :> JStr("G") @@ "function" :> JObj("arguments" :> JStr("{}"))
        @@ "extra_content" :> SignatureContent(JStr("s5")))}

CallLists == UNION {[1 .. n -> CallKinds] : n \in 0 .. MaxCalls}

ChoiceOf(n, calls) ==
  JObj("index" :> JNum(n) @@ "finish_reason" :> JStr("tool_calls")
       @@ "message" :> JObj("role" :> JStr("assistant") @@ "tool_calls" :> JArr(calls)))

ExtractCompletions ==
  {JsonText(JObj("choices" :> JArr(<<ChoiceOf(0, calls),
                                     ChoiceOf(1, <<SignedCall("C", "sigC")>>)>>)), "spaced")
     : calls \in CallLists}

NextExtract ==
  \/ Arrive(1, RetryClient)
  \/ ClientEnd(1, StoreBody)
  \/ \E statusCode \in {200, 400} : UpstreamResponse(1, statusCode, NoHeaders)
  \/ \E chunk \in ExtractCompletions : BufferedData(1, chunk)
  \/ BufferedEnd(1)

SpecExtract == Init /\ [][NextExtract]_vars

\* ------------------------------------------------------------------------
\* Buffered extraction
\* ------------------------------------------------------------------------
\* A tool call with a non-empty string id, a function with a name, and a token.
WellFormedSigned(toolCall) ==
  /\ toolCall.t = "object"
  /\ Get(toolCall, "id").t = "string" /\ Get(toolCall, "id").v \notin BlankStrings
  /\ Truthy(Get(toolCall, "function")) /\ Truthy(Get(Get(toolCall, "function"), "name"))
  /\ Truthy(TokenOf(toolCall))

\* The tool calls of all the choices of a response body.
ResponseCalls(bytes) ==
  LET choices == Get(bytes.content, "choices").v IN
  UNION {{CallsOf(Get(choices[i], "message"))[j] :
            j \in DOMAIN CallsOf(Get(choices[i], "message"))} : i \in DOMAIN choices}

\* The 2xx response of request r has been extracted from.
Extracted(r) ==
  /\ ~isStreaming(r) /\ pc[r] = "done"
  /\ upstreamLog[r] # <<>> /\ upstreamLog[r][1].statusCode = 200

\* C17: after the extraction from a 2xx buffered response, every tool call of
\* any choice that has a non-empty string id, a function with a name and a
\* token is in the store under the request's conversation with its token,
\* whatever malformed tool calls stand before or after it, and the
\* conversation has no record that is not of such a tool call.
C17_MalformedSkipped ==
  \A r \in Reqs : (Extracted(r) /\ proxyRes[r].responseBody # <<>>) =>
    LET calls == ResponseCalls(proxyRes[r].responseBody[1]) IN
      /\ \A toolCall \in calls : WellFormedSigned(toolCall) =>
           Stores(r, Get(toolCall, "id"), TokenOf(toolCall))
      /\ conversationId[r] \in DOMAIN conversationSignatures =>
           \A k \in DOMAIN conversationSignatures[conversationId[r]] :
             \E toolCall \in calls :
               /\ WellFormedSigned(toolCall)
               /\ Get(toolCall, "id") = conversationSignatures[conversationId[r]][k].id
               /\ TokenOf(toolCall) = conversationSignatures[conversationId[r]][k].signature

\* The first choice had a string for a tool call, then the signed call A, then a
\* signed call without id; the store holds A and the second choice's C only.
C17_Witness ==
  \E r \in Reqs :
    /\ Extracted(r) /\ proxyRes[r].responseBody # <<>>
    /\ CallsOf(Get(Get(proxyRes[r].responseBody[1].content, "choices").v[1], "message"))
         = <<JStr("call"), SignedCall("A", "sigA"),
             JObj("function" :> JObj("name" :> JStr("f"))
                  @@ "extra_content" :> SignatureContent(JStr("s1")))>>
    /\ Stores(r, JStr("A"), JStr("sigA"))
    /\ Stores(r, JStr("C"), JStr("sigC"))
    /\ Len(conversationSignatures[conversationId[r]]) = 2

\* ------------------------------------------------------------------------
\* Specification of the sanitizer: one request with one tool whose
\* parameters are drawn from schema nodes with every combination of a type
\* (a name, or an array of up to MaxTypes names, or an array holding an
\* array), a format, a minimum, additionalProperties, required and $ref;
\* from such nodes nested under properties, items and additionalProperties;
\* from objects with a single removed key; and from values that are no
\* objects.
\* ------------------------------------------------------------------------
MaxTypes == 2

TypeNames == {JStr("null"), JStr("string"), JStr("integer"), JStr("")}
TypeArrays == UNION {[1 .. n -> TypeNames] : n \in 0 .. MaxTypes}
TypeOptions ==
  {JUndef, JStr("string"), JStr("integer"), JStr("object"),
   JArr(<<JArr(<<JStr("integer"), JStr("null")>>)>>)}
  \cup {JArr(types) : types \in TypeArrays}

\* { type, format, minimum, additionalProperties, required, $ref }, each key
\* left out when its value is undefined.
FlatNode(type, format, minimum, additionalProperties, required, ref) ==
  LET all == "type" :> type @@ "format" :> format @@ "minimum" :> minimum
             @@ "additionalProperties" :> additionalProperties
             @@ "required" :> required @@ "$ref" :> ref
  IN JObj([k \in {j \in DOMAIN all : all[j] # JUndef} |-> all[k]])

FlatNodes ==
  {FlatNode(type, format, minimum, additionalProperties, required, ref) :
     type \in TypeOptions,
     format \in {JUndef, JStr("uri"), JStr("date-time")},
     minimum \in {JUndef, JNum(1)},
     additionalProperties \in {JUndef, JBool(FALSE)},
     required \in {JUndef, JArr(<<>>)},
     ref \in {JUndef, JStr("#/definitions/x")}}

NestedNodes ==
  UNION {{JObj("type" :> JStr("object") @@ "properties" :> JObj("p" :> node)),
          JObj("type" :> JStr("array") @@ "items" :> node),
          JObj("additionalProperties" :> node),
          JObj("properties" :> JObj("p" :> JObj("items" :> node)))} : node \in FlatNodes}

KeyValues ==
  {JNull, JBool(FALSE), JBool(TRUE), JNum(0), JStr(""), JStr("x"), JArr(<<>>),
   JArr(<<JStr("a")>>), EmptyObj,
   JObj("type" :> JArr(<<JStr("string"), JStr("null")>>) @@ "$ref" :> JStr("#"))}

SingleKeyNodes == {JObj(k :> x) : k \in DeletedKeys, x \in KeyValues}

OtherValues ==
  {JNull, JNum(5), JStr("s"), JBool(TRUE), EmptyObj,
   JArr(<<JObj("$ref" :> JStr("#") @@ "type" :> JArr(<<JStr("null")>>))>>)}

\* Nodes with each kind of value for format, alone and beside a type.
FormatValues ==
  {JStr("enum"), JStr("date-time"), JStr("uri"), JStr(""), JNum(0), JNum(5),
   JBool(FALSE), JBool(TRUE), JNull, JArr(<<JStr("enum")>>), EmptyObj}
FormatNodes ==
  {JObj("format" :> x) : x \in FormatValues}
  \cup {JObj("type" :> JStr("string") @@ "format" :> x) : x \in FormatValues}

\* Nodes with the three numeric constraints under each kind of type.
NumericNodes ==
  {JObj([k \in {j \in {"type", "minimum", "maximum", "multipleOf"} :
                       j = "type" => type # JUndef} |->
                CASE k = "type" -> type
                  [] k = "minimum" -> JNum(1)
                  [] k = "maximum" -> JNum(9)
                  [] OTHER -> JNum(2)]) :
          type \in {JUndef, JStr("number"), JStr("integer"), JStr("string"),
                    JArr(<<JStr("number"), JStr("null")>>),
                    JArr(<<JStr("null")>>)}}

\* Nodes four levels deep with unsupported keys at every level, a property
\* that is itself called const, and children that are not objects.
Unsupported(leaf) ==
  JObj("$ref" :> JStr("#/definitions/x") @@ "const" :> JNum(1)
       @@ "anyOf" :> JArr(<<leaf>>) @@ "description" :> JStr("d"))
DeepNode(leaf) ==
  With(Unsupported(leaf), "properties",
    JObj("const" :> With(Unsupported(leaf), "items",
           With(Unsupported(leaf), "additionalProperties",
             With(Unsupported(leaf), "properties", JObj("q" :> leaf))))))
DeepNodes ==
  {DeepNode(leaf) : leaf \in {Unsupported(JNull), JObj("type" :> JStr("string")),
                              JStr("s"), JBool(TRUE), JNull}}
  \cup {JObj("properties" :> x) : x \in {JNull, JStr("s"), JArr(<<Unsupported(JNull)>>)}}
  \cup {JObj("items" :> x) : x \in {JNull, JStr("s"), JBool(FALSE), JBool(TRUE)}}
  \cup {JObj("additionalProperties" :> x) : x \in {JNull, JStr("s"), JBool(TRUE)}}

Schemas ==
  FlatNodes \cup NestedNodes \cup SingleKeyNodes \cup OtherValues
  \cup FormatNodes \cup NumericNodes \cup DeepNodes

SanitizeRequest(schema) ==
  JsonText(JObj("model" :> JStr("gemini-3-pro-preview")
                @@ "messages" :> JArr(<<UserMessage>>)
                @@ "tools" :> JArr(<<JObj("type" :> JStr("function")
                     @@ "function" :> JObj("name" :> JStr("f")
                                           @@ "parameters" :> schema))>>)), "spaced")

NextSanitize ==
  \/ Arrive(1, RetryClient)
  \/ \E schema \in Schemas : ClientEnd(1, SanitizeRequest(schema))

SpecSanitize == Init /\ [][NextSanitize]_vars

\* ------------------------------------------------------------------------
\* The sanitizer
\* ------------------------------------------------------------------------
\* The parameters of the first tool of a request.
ParametersOf(data) ==
  Get(Get(Get(data, "tools").v[1], "function"), "parameters")

\* Request r was prepared from a body with a tool.
Sanitized(r) ==
  /\ Prepared(r) /\ Parses(clientBody[r])
  /\ IsArray(Get(clientBody[r].content, "tools"))
  /\ Get(clientBody[r].content, "tools").v # <<>>

SchemaIn(r) == ParametersOf(clientBody[r].content)
SchemaOut(r) == ParametersOf(requestData[r])

\* C18 (as claimed): sanitizing the parameters the proxy has sanitized
\* changes nothing.
C18_Idempotent ==
  \A r \in Reqs : Sanitized(r) => sanitizeSchema(SchemaOut(r)) = SchemaOut(r)

\* The places of the schema nodes in the parameters.
NodePaths ==
  {<<>>, <<"properties", "p">>, <<"items">>, <<"additionalProperties">>,
   <<"properties", "p", "items">>}

RECURSIVE NodeAt(_, _)
NodeAt(x, path) == IF path = <<>> THEN x ELSE NodeAt(Get(x, Head(path)), Tail(path))

IsStringArray(x) == IsArray(x) /\ \A i \in DOMAIN x.v : x.v[i].t = "string"

\* The places of the entries of a type array that are not "null".
NonNullPlaces(type) == {i \in DOMAIN type.v : type.v[i] # JStr("null")}

\* C19 (as claimed): a node whose type is an array of strings comes out with
\* the first entry that is not "null" as its type, or "string" when there is
\* none, and with nullable = true when the array has "null" and another
\* entry; {type:["string","null"]} becomes {type:"string", nullable:true} and
\* {type:["null"]} becomes {type:"string"}.
C19_TypeArrayCollapsed ==
  \A r \in Reqs : Sanitized(r) =>
    /\ \A path \in NodePaths :
         LET type == Get(NodeAt(SchemaIn(r), path), "type")
             out == NodeAt(SchemaOut(r), path)
         IN IsStringArray(type) =>
              /\ Get(out, "type") =
                   IF NonNullPlaces(type) = {} THEN JStr("string")
                   ELSE type.v[CHOOSE i \in NonNullPlaces(type) :
                                 \A j \in NonNullPlaces(type) : i <= j]
              /\ (NonNullPlaces(type) # {} /\ NonNullPlaces(type) # DOMAIN type.v)
                   => Get(out, "nullable") = JBool(TRUE)
    /\ SchemaIn(r) = JObj("type" :> JArr(<<JStr("string"), JStr("null")>>))
         => SchemaOut(r) = JObj("type" :> JStr("string") @@ "nullable" :> JBool(TRUE))
    /\ SchemaIn(r) = JObj("type" :> JArr(<<JStr("null")>>))
         => SchemaOut(r) = JObj("type" :> JStr("string"))

\* The keys the specification lists as unsupported.
UnsupportedKeys ==
  {"$ref", "$schema", "$id", "definitions", "$defs", "anyOf", "oneOf", "allOf",
   "not", "exclusiveMaximum", "exclusiveMinimum", "const", "contentEncoding",
   "contentMediaType", "prefixItems", "contains", "minContains", "maxContains",
   "propertyNames", "patternProperties", "dependentSchemas", "dependentRequired"}

\* C20: parameters that are an object with a single key, one of the
\* unsupported keys, go out as the empty object, whatever the key's value.
C20_SingleKeyRemoved ==
  \A r \in Reqs :
    (/\ Sanitized(r)
     /\ SchemaIn(r).t = "object"
     /\ \E k \in UnsupportedKeys : DOMAIN SchemaIn(r).v = {k})
    => SchemaOut(r) = EmptyObj

\* The key const was sent alone, with a schema as its value, and the
\* parameters went out empty.
C20_Witness ==
  \E r \in Reqs :
    /\ Sanitized(r)
    /\ SchemaIn(r) = JObj("const" :> JObj("type" :> JArr(<<JStr("string"), JStr("null")>>)
                                         @@ "$ref" :> JStr("#")))
    /\ SchemaOut(r) = EmptyObj

\* The input and output nodes of request r at the places of NodePaths where
\* the input has an object.
NodesOf(r) ==
  {<<NodeAt(SchemaIn(r), path), NodeAt(SchemaOut(r), path)>> :
     path \in {q \in NodePaths : NodeAt(SchemaIn(r), q).t = "object"}}

\* C21 (as claimed): a sanitized node has a format only if the format it
\* came with is "enum" or "date-time", and then it is that one.
C21_FormatRule ==
  \A r \in Reqs : Sanitized(r) =>
    \A io \in NodesOf(r) :
      /\ Has(io[2], "format") => Get(io[1], "format") \in {JStr("enum"), JStr("date-time")}
      /\ Get(io[1], "format") \in {JStr("enum"), JStr("date-time")}
           => Get(io[2], "format") = Get(io[1], "format")

NumericKeys == {"minimum", "maximum", "multipleOf"}

\* C22 (as claimed): a sanitized node has minimum, maximum or multipleOf
\* only if its type is "number" or "integer", and a node that comes out with
\* one of these types has them as it came with them.
C22_NumericRule ==
  \A r \in Reqs : Sanitized(r) =>
    \A io \in NodesOf(r) : \A k \in NumericKeys :
      /\ Has(io[2], k) => Get(io[2], "type") \in {JStr("number"), JStr("integer")}
      /\ (Get(io[2], "type") \in {JStr("number"), JStr("integer")} /\ Has(io[1], k))
           => Get(io[2], k) = Get(io[1], k)

\* ------------------------------------------------------------------------
\* The frame of the injection
\* ------------------------------------------------------------------------
\* Objects a and b have the same entries, the one of key k apart.
SameBut(a, b, k) ==
  /\ a.t = "object" /\ b.t = "object"
  /\ DOMAIN a.v \ {k} = DOMAIN b.v \ {k}
  /\ \A j \in DOMAIN a.v \ {k} : a.v[j] = b.v[j]

\* Every entry of the extra content a tool call came with is in what it
\* goes out with, the token apart.
ExtraKept(in, out) ==
  LET extra == Get(in, "extra_content") IN
  extra.t = "object" =>
    /\ \A k \in DOMAIN extra.v \ {"google"} :
         Has(Get(out, "extra_content"), k) /\ Get(out, "extra_content").v[k] = extra.v[k]
    /\ Get(extra, "google").t = "object" =>
         \A k \in DOMAIN Get(extra, "google").v \ {"thought_signature"} :
           Get(Get(Get(out, "extra_content"), "google"), k) = Get(extra, "google").v[k]

\* Message out is message in, the token of its first tool call apart.
MessageFramed(in, out) ==
  IF ~CarriesToolCalls(in) THEN out = in
  ELSE /\ SameBut(in, out, "tool_calls")
       /\ IsArray(Get(out, "tool_calls"))
       /\ Len(CallsOf(out)) = Len(CallsOf(in))
       /\ \A j \in DOMAIN CallsOf(in) :
            IF j = 1
            THEN /\ SameBut(CallsOf(in)[1], CallsOf(out)[1], "extra_content")
                 /\ ExtraKept(CallsOf(in)[1], CallsOf(out)[1])
            ELSE CallsOf(out)[j] = CallsOf(in)[j]

\* C23 (as claimed): the request sent upstream is the request received, but
\* for the token of the first tool call of assistant messages: the other
\* fields of the request, the other messages, the other fields of each
\* message, the later tool calls, and the other fields of the first tool
\* call with the other entries of its extra content are as received.
C23_InjectionFrame ==
  \A r \in Reqs :
    (/\ Prepared(r) /\ Parses(clientBody[r]) /\ clientBody[r].content.t = "object"
     /\ ~Has(clientBody[r].content, "tools"))
    => /\ Parses(body[r])
       /\ SameBut(clientBody[r].content, body[r].content, "messages")
       /\ Len(MessagesOf(body[r])) = Len(MessagesOf(clientBody[r]))
       /\ \A i \in DOMAIN MessagesOf(clientBody[r]) :
            MessageFramed(MessagesOf(clientBody[r])[i], MessagesOf(body[r])[i])

\* ------------------------------------------------------------------------
\* Specification of the delivery of upstream errors: one request, buffered
\* or streaming, answered 400 or 404 with an error envelope whose code is a
\* number, zero or a string and whose message is there, empty or missing.
\* ------------------------------------------------------------------------
Envelope(code, message, status) ==
  JsonText(JObj("error" :> JObj([k \in {j \in {"code", "message", "status"} :
                                         j = "message" => message # JUndef} |->
                                  CASE k = "code" -> code
                                    [] k = "message" -> message
                                    [] OTHER -> status])), "spaced")

Envelopes ==
  {Envelope(code, message, status) :
     code \in {JNum(400), JNum(0), JStr("E42")},
     message \in {JStr("bad"), JStr(""), JUndef},
     status \in {JStr("INVALID_ARGUMENT"), JStr("NOT_FOUND")}}

\* The envelope as the one line of a network chunk of a streamed response.
EnvelopeChunk(bytes) == <<[data |-> FALSE, payload |-> bytes]>>

NextTranslate ==
  \/ Arrive(1, RetryClient)
  \/ \E raw \in {ChatRequest(<<UserMessage>>, FALSE), StreamRequest} : ClientEnd(1, raw)
  \/ \E statusCode \in {400, 404} : UpstreamResponse(1, statusCode, NoHeaders)
  \/ \E bytes \in Envelopes : BufferedData(1, bytes)
  \/ BufferedEnd(1)
  \/ \E bytes \in Envelopes :
       proxyRes[1].responseBody = <<>> /\ StreamData(1, EnvelopeChunk(bytes))
  \/ StreamEnd(1)

SpecTranslate == Init /\ [][NextTranslate]_vars

\* ------------------------------------------------------------------------
\* Error translation
\* ------------------------------------------------------------------------
\* Request r, not streaming, was answered with the error envelope and the
\* answer was delivered.
ErrorDelivered(r) ==
  /\ ~isStreaming(r) /\ pc[r] = "done"
  /\ proxyRes[r].statusCode >= 400 /\ proxyRes[r].responseBody # <<>>
  /\ Parses(proxyRes[r].responseBody[1])
  /\ Get(proxyRes[r].responseBody[1].content, "error").t = "object"

\* Body out is {error: {message, type, code}} made of the upstream error e.
TranslationOf(e, out) ==
  /\ Parses(out) /\ out.content.t = "object" /\ DOMAIN out.content.v = {"error"}
  /\ LET err == out.content.v["error"] IN
       /\ err.t = "object" /\ DOMAIN err.v = {"message", "type", "code"}
       /\ err.v["type"] = Get(e, "status")
       /\ err.v["code"] = Get(e, "code")
       /\ IF Has(e, "message") THEN err.v["message"] = Get(e, "message")
          ELSE err.v["message"].t = "string" /\ err.v["message"].v # ""

\* C24 (as claimed): the body the client gets for an upstream error envelope
\* {code, message, status} is {error: {message, type, code}} with the
\* upstream status as type, the upstream code as it is, and the upstream
\* message, or a default string when there is none.
C24_Translation ==
  \A r \in Reqs : ErrorDelivered(r) =>
    /\ Len(clientRes[r].written) = 1
    /\ TranslationOf(Get(proxyRes[r].responseBody[1].content, "error"),
                     clientRes[r].written[1])

\* The body of the upstream's answer to r and the body the client was
\* written, as bytes; a streamed body is the one line of its one chunk.
UpstreamBytes(r) ==
  IF isStreaming(r) THEN proxyRes[r].responseBody[1][1].payload
  ELSE proxyRes[r].responseBody[1]
ClientBytes(r) ==
  IF isStreaming(r) THEN clientRes[r].written[1][1].payload ELSE clientRes[r].written[1]

\* C25 (as claimed): a client that was delivered an upstream status >= 400
\* whose body is an error envelope has that status and the translated body,
\* in streaming mode as in buffered mode.
C25_ErrorsTranslated ==
  \A r \in Reqs :
    (/\ pc[r] = "done" /\ proxyRes[r].statusCode >= 400
     /\ proxyRes[r].responseBody # <<>> /\ clientRes[r].written # <<>>)
    => /\ clientRes[r].statusCode = proxyRes[r].statusCode
       /\ Len(clientRes[r].written) = 1
       /\ ClientBytes(r) = convertGeminiErrorToOpenAI(UpstreamBytes(r))

\* ------------------------------------------------------------------------
\* Bodies that are not JSON
\* ------------------------------------------------------------------------
\* body.length as written into the content-length of the upstream request:
\* the number of characters of bytes that are plain text, and for a JSON
\* text a length that its value and its form determine.
ByteLength(b) ==
  IF b.parses THEN [of |-> b.content, form |-> b.form] ELSE Len(b.content.v)

\* C26: the step that prepares a request whose body does not parse as JSON
\* leaves the bytes to send equal to the bytes received, with the same
\* length, issues the first upstream request, writes nothing to the client
\* and leaves the store as it was.
C26_FailOpen ==
  [][\A r \in Reqs :
       (pc[r] = "receiving" /\ pc'[r] # "receiving" /\ ~Parses(clientBody'[r]))
       => /\ body'[r] = clientBody'[r]
          /\ ByteLength(body'[r]) = ByteLength(clientBody'[r])
          /\ pc'[r] = "requesting" /\ requests'[r] = 1
          /\ clientRes'[r] = clientRes[r]
          /\ conversationSignatures' = conversationSignatures]_vars

\* A request whose body is the text ping is out for its first attempt with
\* those four bytes, while the store holds signatures.
C26_Witness ==
  \E r \in Reqs :
    /\ pc[r] = "requesting" /\ requests[r] = 1
    /\ clientBody[r] = RawText("ping") /\ body[r] = RawText("ping")
    /\ ByteLength(body[r]) = 4
    /\ conversationSignatures # <<>>

\* ------------------------------------------------------------------------
\* Conversation keys
\* ------------------------------------------------------------------------
\* Requests with and without the x-conversation-id header, with and without
\* x-forwarded-for, with and without a remote address, and with the agents
\* droid, curl, unknown and none.
KeyClients ==
  [explicit : {"", "a"}, forwarded : {"", "10.0.0.2"}, remote : {"", "10.0.0.1"},
   agent : {"droid", "curl", "unknown", ""}]

NextKey == \E r \in Reqs, req \in KeyClients : Arrive(r, req)

SpecKey == Init /\ [][NextKey]_vars

Arrived(r) == pc[r] # "new"
HasExplicit(req) == req.explicit # ""
\* The address a request comes from: the forwarded one when there is one.
AddressOf(req) == IF req.forwarded # "" THEN req.forwarded ELSE req.remote
Digests ==
  {Sha256Hex16(a \o ":" \o g) : a \in {"10.0.0.1", "10.0.0.2", "unknown"},
                                g \in {"droid", "curl", "unknown"}}

\* C27: a request with an explicit identifier is keyed explicit:<identifier>
\* and any other auto:<16 digest characters>; equal identifiers give equal
\* keys, equal (address, agent) pairs give equal keys, the same address with
\* different agents gives different keys, and no key of an explicit
\* identifier is a key of the auto path.
C27_Keying ==
  \A r, s \in Reqs :
    (Arrived(r) /\ Arrived(s)) =>
      LET a == clientReq[r]
          b == clientReq[s]
      IN /\ HasExplicit(a) => conversationId[r] = "explicit:" \o a.explicit
         /\ ~HasExplicit(a) =>
              /\ Len(conversationId[r]) = 5 + 16
              /\ \E h \in Digests : conversationId[r] = "auto:" \o h
         /\ (HasExplicit(a) /\ a.explicit = b.explicit)
              => conversationId[r] = conversationId[s]
         /\ (~HasExplicit(a) /\ ~HasExplicit(b) /\ AddressOf(a) = AddressOf(b))
              => (a.agent = b.agent <=> conversationId[r] = conversationId[s])
         /\ (HasExplicit(a) /\ ~HasExplicit(b))
              => conversationId[r] # conversationId[s]

\* ------------------------------------------------------------------------
\* The sanitizer at every depth
\* ------------------------------------------------------------------------
\* The objects among the values of properties, items and
\* additionalProperties of an object.
ChildNodes(x) ==
  LET properties == Get(x, "properties")
      named == IF properties.t \in {"object", "array"}
               THEN {properties.v[k] : k \in DOMAIN properties.v} ELSE {}
  IN {c \in named \cup {Get(x, "items"), Get(x, "additionalProperties")} :
        c.t = "object"}

\* The schema nodes of x: x itself when it is an object, and the nodes of
\* its children.
RECURSIVE SchemaNodes(_)
SchemaNodes(x) ==
  IF x.t # "object" THEN {}
  ELSE {x} \cup UNION {SchemaNodes(c) : c \in ChildNodes(x)}

\* C28: in sanitized parameters no node, at the root or reached through
\* the values of properties, through items or through an object-valued
\* additionalProperties, has an unsupported key.
C28_NoUnsupportedKeyAtAnyDepth ==
  \A r \in Reqs : Sanitized(r) =>
    \A node \in SchemaNodes(SchemaOut(r)) : DOMAIN node.v \cap UnsupportedKeys = {}

\* Parameters five nodes deep that came with unsupported keys in every
\* node, the innermost one included, have been sanitized.
C28_Witness ==
  \E r \in Reqs :
    /\ Sanitized(r)
    /\ Cardinality(SchemaNodes(SchemaIn(r))) = 5
    /\ \A node \in SchemaNodes(SchemaIn(r)) : "$ref" \in DOMAIN node.v
    /\ Cardinality(SchemaNodes(SchemaOut(r))) = 5

\* ------------------------------------------------------------------------
\* The retries of 503
\* ------------------------------------------------------------------------
Is503(entry) == entry.kind = "response" /\ entry.statusCode = 503
\* How many of the first i attempts of request r were answered 503.
Count503(r, i) == Cardinality({j \in 1..i : Is503(upstreamLog[r][j])})

\* C29: the first, second and third 503 of a request are retried after
\* 1s, 2s and 4s, whatever the attempts before them met.
C29_Separate503Budget ==
  \A r \in Reqs : \A i \in DOMAIN upstreamLog[r] :
    (Is503(upstreamLog[r][i]) /\ Count503(r, i) <= 3)
      => /\ i <= Len(waits[r])
         /\ waits[r][i] = JNum(2 ^ (Count503(r, i) - 1) * 1000)

\* ------------------------------------------------------------------------
\* What a sweep leaves
\* ------------------------------------------------------------------------
Records(m) == {m[i] : i \in DOMAIN m}
RecordsOf(cs, c) == IF c \in DOMAIN cs THEN Records(cs[c]) ELSE {}
Expired(rec, now) == rec.timestamp < now - OneHourMs

\* C30: right after a sweep at time now no record is older than now minus
\* one hour; every conversation is gone or holds 1 to 100 records; a record
\* evicted for the cap is no newer than any record retained; the records of
\* a conversation with at most 100 records that have not expired are all
\* retained as they were; and every record left was there before.
C30_SweepPostcondition ==
  [][\A r \in Reqs : SweepRuns(r) =>
       \A c \in DOMAIN conversationSignatures \cup DOMAIN conversationSignatures' :
         LET before == RecordsOf(conversationSignatures, c)
             after == RecordsOf(conversationSignatures', c)
             fresh == {rec \in before : ~Expired(rec, clock)}
         IN /\ \A rec \in after : ~Expired(rec, clock)
            /\ c \in DOMAIN conversationSignatures' =>
                 /\ Len(conversationSignatures'[c]) >= 1
                 /\ Len(conversationSignatures'[c]) <= 100
                 /\ Cardinality(after) = Len(conversationSignatures'[c])
            /\ \A gone \in fresh \ after : \A kept \in after :
                 gone.timestamp <= kept.timestamp
            /\ Cardinality(fresh) <= 100 => fresh \subseteq after
            /\ after \subseteq before]_vars

\* A request has just arrived and its sweep has cut the conversation from
\* 101 records to 100: the record with the oldest timestamp, not yet an hour
\* old, is gone, the next oldest and the newest are there.
C30_Witness ==
  \E r \in Reqs :
    /\ pc[r] = "receiving"
    /\ StoredConversation \in DOMAIN conversationSignatures
    /\ LET m == conversationSignatures[StoredConversation] IN
         /\ Len(m) = 100
         /\ SigIndex(m, JStr("k1")) = {}
         /\ SigIndex(m, JStr("k2")) # {}
         /\ SigIndex(m, JStr("B")) # {}
         /\ ~Expired(FullMap[1], clock)

\* ------------------------------------------------------------------------
\* Specification of failures around a conversation's store: request 1 is
\* streamed or buffered, is answered 200 or 400, fails before or during
\* the response and is retried, its client may close the connection; the
\* other requests of the conversation arrive (which sweeps) and are
\* prepared (which injects); time passes.
\* ------------------------------------------------------------------------
CancelStatuses == {200, 400}
\* The streamed response: an event that completes call c1, then the event
\* of call c2 with the end marker.
CancelChunks == <<<<EventLine(<<DeltaId, DeltaSignature>>)>>, LiveChunk>>
\* The request that follows up on call c1.
FollowUpBody ==
  ChatRequest(<<UserMessage, AssistantMessage(<<ToolCall("c1")>>), ToolMessage("c1")>>, FALSE)

NextCancel ==
  \/ \E r \in Reqs : Arrive(r, RetryClient)
  \/ \E r \in Reqs, raw \in {FollowUpBody, StreamRequest} :
       /\ r # 1 => raw = FollowUpBody
       /\ ClientEnd(r, raw)
  \/ \E statusCode \in CancelStatuses : UpstreamResponse(1, statusCode, NoHeaders)
  \/ /\ Len(proxyRes[1].responseBody) < Len(CancelChunks)
     /\ StreamData(1, CancelChunks[Len(proxyRes[1].responseBody) + 1])
  \/ proxyRes[1].responseBody = <<>> /\ \E chunk \in AnswerBodies(1) : BufferedData(1, chunk)
  \/ StreamEnd(1)
  \/ proxyRes[1].responseBody # <<>> /\ BufferedEnd(1)
  \/ \E message \in {Refused, IdleTimeout}, unhandled \in BOOLEAN :
       /\ pc[1] = "requesting" <=> message = Refused
       /\ RequestError(1, message, unhandled)
  \/ BackoffElapsed(1)
  \/ ClientClose(1)
  \/ Tick(61 * MinuteMs)

SpecCancel == Init /\ [][NextCancel]_vars

\* ------------------------------------------------------------------------
\* Commits stay
\* ------------------------------------------------------------------------
\* The sweep of an arrival runs in this step.
SweepStep == \E r \in Reqs : SweepRuns(r)

\* A response of r is extracted from in this step: the end of a buffered
\* response, or a chunk of a streamed one.
CommitStep ==
  \E r \in Reqs :
    /\ pc[r] = "responding"
    /\ \/ ~isStreaming(r) /\ upstreamLog'[r] # upstreamLog[r]
       \/ isStreaming(r) /\ ChunkArrives(r)

\* C31: a step that is not a sweep leaves every record of the store in
\* place, unaltered or overwritten by a commit for its id; a step that is
\* neither a sweep nor a commit leaves the store as it is; a sweep adds
\* nothing.
C31_CommitsStay ==
  [][/\ ~SweepStep =>
          \A c \in DOMAIN conversationSignatures :
            \A i \in DOMAIN conversationSignatures[c] :
              /\ c \in DOMAIN conversationSignatures'
              /\ \E j \in DOMAIN conversationSignatures'[c] :
                   /\ conversationSignatures'[c][j].id = conversationSignatures[c][i].id
                   /\ \/ conversationSignatures'[c][j] = conversationSignatures[c][i]
                      \/ CommitStep
     /\ (~SweepStep /\ ~CommitStep) => conversationSignatures' = conversationSignatures
     /\ SweepStep =>
          \A c \in DOMAIN conversationSignatures' :
            RecordsOf(conversationSignatures', c) \subseteq RecordsOf(conversationSignatures, c)
    ]_vars

\* The first chunk of request 1's stream committed the token of call c1,
\* the stream then failed on the idle timer and the client closed the
\* connection; the record is in the store, and a request that follows up
\* on c1 has gone out with the token.
C31_Witness ==
  \E q \in Reqs :
    /\ q # 1 /\ Prepared(q)
    /\ \E i \in DOMAIN upstreamLog[1] :
         upstreamLog[1][i].kind = "error" /\ upstreamLog[1][i].message = IdleTimeout
    /\ clientClosed[1]
    /\ isStreaming(1)
    /\ ExpectedSignature(conversationSignatures, StoredConversation, JStr("c1")) = JStr("tok1")
    /\ ~HasRecord(conversationSignatures, StoredConversation, JStr("c2"))
    /\ \E i \in DOMAIN MessagesOf(body[q]) :
         /\ CarriesToolCalls(MessagesOf(body[q])[i])
         /\ TokenOf(CallsOf(MessagesOf(body[q])[i])[1]) = JStr("tok1")

\* ------------------------------------------------------------------------
\* A client that goes away
\* ------------------------------------------------------------------------
\* The client of r has closed the connection while the first upstream
\* attempt of r is out and nothing has come back.
ClosedBeforeResponse(r) ==
  clientClosed[r] /\ pc[r] = "requesting" /\ requests[r] = 1

\* C32 (as claimed): once the client has closed the connection before the
\* upstream responded, no response of the upstream is taken up for the
\* request and no other upstream attempt is started for it.
C32_Cancellation ==
  [][\A r \in Reqs : ClosedBeforeResponse(r) =>
       /\ pc'[r] \in {"requesting", "done"}
       /\ requests'[r] = requests[r]
       /\ waits'[r] = waits[r]]_vars

\* ------------------------------------------------------------------------
\* Specification of requests with tools and any kind of messages field
\* ------------------------------------------------------------------------
\* messages as an array of messages, absent, a string, an array with a null
\* entry, and an array with an assistant message whose tool_calls is a string.
MessagesFields ==
  {JArr(<<UserMessage, AssistantMessage(<<ToolCall("A")>>), ToolMessage("A")>>),
   JUndef,
   JStr("hi"),
   JArr(<<UserMessage, JNull>>),
   JArr(<<With(AssistantMessage(<<>>), "tool_calls", JStr("A"))>>)}

DialectRequest(schema, messages) ==
  LET tools == JArr(<<JObj("type" :> JStr("function")
                          @@ "function" :> JObj("name" :> JStr("f")
                                                @@ "parameters" :> schema))>>)
      all == "model" :> JStr("gemini-3-pro-preview") @@ "tools" :> tools
             @@ "messages" :> messages
  IN JsonText(JObj([k \in {j \in DOMAIN all : all[j] # JUndef} |-> all[k]]), "spaced")

NextDialect ==
  \/ Arrive(1, RetryClient)
  \/ \E schema \in FormatNodes, messages \in MessagesFields :
       ClientEnd(1, DialectRequest(schema, messages))
  \/ \E schema \in DeepNodes, messages \in MessagesFields :
       ClientEnd(1, DialectRequest(schema, messages))

SpecDialect == Init /\ [][NextDialect]_vars

\* tool.function.parameters, JUndef when there is none
ToolParameters(tool) == OptGet(OptGet(tool, "function"), "parameters")

\* C33 (as claimed): a request that came with a tools array goes upstream
\* with a tools array of the same length in which every tool's parameters
\* are the sanitized parameters it came with, whatever its messages are.
C33_ToolsAlwaysSanitized ==
  \A r \in Reqs :
    (/\ Prepared(r) /\ Parses(clientBody[r])
     /\ clientBody[r].content.t = "object"
     /\ IsArray(Get(clientBody[r].content, "tools")))
    => /\ Parses(body[r])
       /\ IsArray(OptGet(body[r].content, "tools"))
       /\ LET in == Get(clientBody[r].content, "tools").v
              out == Get(body[r].content, "tools").v
          IN /\ Len(out) = Len(in)
             /\ \A i \in DOMAIN in :
                  ToolParameters(out[i]) = sanitizeSchema(ToolParameters(in[i]))

\* ------------------------------------------------------------------------
\* Translating twice
\* ------------------------------------------------------------------------
\* The client of buffered request r was delivered the translation of an
\* upstream error body.
TranslationDelivered(r) ==
  /\ ~isStreaming(r) /\ pc[r] = "done"
  /\ proxyRes[r].statusCode >= 400 /\ proxyRes[r].responseBody # <<>>
  /\ Len(clientRes[r].written) = 1
  /\ clientRes[r].written[1] = convertGeminiErrorToOpenAI(proxyRes[r].responseBody[1])

\* C34 (as claimed): translating the body the client was delivered gives
\* that body again.
C34_TranslationIdempotent ==
  \A r \in Reqs : TranslationDelivered(r) =>
    convertGeminiErrorToOpenAI(clientRes[r].written[1]) = clientRes[r].written[1]

\* ------------------------------------------------------------------------
\* The README on rate limits
\* ------------------------------------------------------------------------
Is429(entry) == entry.kind = "response" /\ entry.statusCode = 429
\* The first i attempts of request r were all answered 429.
Only429(r, i) == \A j \in 1 .. i : Is429(upstreamLog[r][j])

\* C35 (as claimed): each of the first five 429 answers of a request is
\* followed by a retry, after 1s, 2s, 4s, 8s, 16s when the answer has no
\* Retry-After header and after the header's seconds when it has one; the
\* 429 after the fifth retry is the client's answer.
C35_ReadmeBackoff ==
  \A r \in Reqs : \A i \in DOMAIN upstreamLog[r] :
    Only429(r, i) =>
      /\ i <= 5 =>
           /\ i <= Len(waits[r])
           /\ upstreamLog[r][i].headers.retry_after = NoHeader
                => waits[r][i] = JNum(2 ^ (i - 1) * 1000)
           /\ upstreamLog[r][i].headers.retry_after = <<"3">>
                => waits[r][i] = JNum(3000)
      /\ (pc[r] = "done" /\ i = Len(upstreamLog[r]))
           => i = 6 /\ clientRes[r].statusCode = 429

\* ------------------------------------------------------------------------
\* How makeRequestWithRetry ends
\* ------------------------------------------------------------------------
\* C36 (as claimed): a request causes at most 5 upstream attempts, and when
\* makeRequestWithRetry has ended it has returned the response of the last
\* attempt, with its status, headers and body, or has raised the transport
\* error of the last attempt.
C36_RetryLoopOutcome ==
  \A r \in Reqs :
    /\ requests[r] <= 5
    /\ Len(upstreamLog[r]) <= 5
    /\ pc[r] = "done" =>
         LET last == upstreamLog[r][Len(upstreamLog[r])] IN
         /\ upstreamLog[r] # <<>>
         /\ result[r].kind \in {"returned", "thrown"}
         /\ result[r].kind = "returned" =>
              /\ last.kind = "response"
              /\ result[r].statusCode = last.statusCode
              /\ result[r].headers = last.headers
              /\ result[r].responseData = last.body
         /\ result[r].kind = "thrown" =>
              /\ last.kind = "error"
              /\ result[r].message = last.message

\* ------------------------------------------------------------------------
\* Specification of one streamed response cut into network chunks at any
\* place: between two lines, or inside a line.
\* ------------------------------------------------------------------------
\* The lines of the response: the id of call c1, its signature, call c2
\* whole, the end marker.
SplitLines ==
  <<EventLine(<<DeltaId>>), EventLine(<<DeltaSignature>>), EventLine(<<DeltaWhole>>),
    DoneLine>>

\* The two pieces of a line cut inside its JSON text: the first keeps the
\* line's prefix, neither has a text that parses.
HeadPiece(k) ==
  [data |-> SplitLines[k].data, payload |-> RawText("head of line " \o ToString(k))]
TailPiece(k) == [data |-> FALSE, payload |-> RawText("tail of line " \o ToString(k))]

\* The lines with line k cut in two, as they are for k = 0.
Pieces(k) ==
  IF k = 0 THEN SplitLines
  ELSE SubSeq(SplitLines, 1, k - 1) \o <<HeadPiece(k), TailPiece(k)>>
       \o SubSeq(SplitLines, k + 1, Len(SplitLines))

\* The chunks of these pieces when a chunk ends after each place in cuts
\* and after the last piece.
SplitAt(pieces, cuts) ==
  LET ends == cuts \cup {Len(pieces)}
      EndOf(j) == CHOOSE e \in ends : Cardinality({c \in ends : c <= e}) = j
      StartOf(e) == IF \E c \in ends : c < e
                    THEN 1 + CHOOSE c \in ends : c < e /\ \A d \in ends : d < e => d <= c
                    ELSE 1
  IN [j \in 1 .. Cardinality(ends) |-> SubSeq(pieces, StartOf(EndOf(j)), EndOf(j))]

\* The splitting with line k cut in two (none for k = 0) and a chunk ending
\* after each place in cuts.
Splitting(k, cuts) == SplitAt(Pieces(k), IF k = 0 THEN cuts ELSE cuts \cup {k})

\* The splittings of the model: those of at most MaxChunks chunks.
IsSplitting(k, cuts) ==
  /\ cuts \subseteq 1 .. Len(Pieces(k)) - 1
  /\ Len(Splitting(k, cuts)) <= MaxChunks

NextSplit ==
  \/ Arrive(1, RetryClient)
  \/ ClientEnd(1, StreamRequest)
  \/ UpstreamResponse(1, 200, NoHeaders)
  \/ \E k \in 0 .. Len(SplitLines), cuts \in SUBSET (1 .. Len(SplitLines)) :
       /\ IsSplitting(k, cuts)
       /\ Len(proxyRes[1].responseBody) < Len(Splitting(k, cuts))
       /\ IsPrefix(proxyRes[1].responseBody, Splitting(k, cuts))
       /\ StreamData(1, Splitting(k, cuts)[Len(proxyRes[1].responseBody) + 1])
  \/ /\ \E k \in 0 .. Len(SplitLines), cuts \in SUBSET (1 .. Len(SplitLines)) :
          IsSplitting(k, cuts) /\ proxyRes[1].responseBody = Splitting(k, cuts)
     /\ StreamEnd(1)

SpecSplit == Init /\ [][NextSplit]_vars

\* The (id, token) pairs of the records of conversation conv.
PairsOf(cs, conv) ==
  IF conv \in DOMAIN cs
  THEN {<<cs[conv][i].id, cs[conv][i].signature>> : i \in DOMAIN cs[conv]}
  ELSE {}

\* What the lines commit when they come as one chunk.
WholePairs ==
  PairsOf(extractSignaturesFromStreamChunks(parseSSEChunks(SplitLines), <<>>,
            StoredConversation, <<>>, 0).cs, StoredConversation)

\* C37 (as claimed): when the streamed response has ended, the pairs
\* committed to the store are those the lines commit as one chunk, however
\* the response was cut into chunks.
C37_ChunkBoundaryIndependence ==
  \A r \in Reqs :
    (isStreaming(r) /\ pc[r] = "done" /\ result[r].kind = "returned")
      => PairsOf(conversationSignatures, conversationId[r]) = WholePairs

\* ------------------------------------------------------------------------
\* One response per request
\* ------------------------------------------------------------------------
\* The status and headers of r are written in this step.
HeadWritten(r) == ~clientRes[r].headersSent /\ clientRes'[r].headersSent

\* Bytes are written to the client response of r in this step.
BytesWritten(r) == clientRes'[r].written # clientRes[r].written

\* Claim C38: whatever the order of upstream responses, retries, timers and
\* failures, the status and headers of a client response are written at
\* most once (once sent they never change), the body is ended at most once
\* (an ended response never changes again), and the bytes written to one
\* client response all come from one upstream attempt: a step that writes
\* either writes the first bytes, or adds to what the response of the
\* current attempt has delivered so far and to nothing else.
C38_SingleResponse ==
  [][\A r \in Reqs :
       /\ clientRes[r].headersSent =>
            /\ clientRes'[r].headersSent
            /\ clientRes'[r].statusCode = clientRes[r].statusCode
            /\ clientRes'[r].headers = clientRes[r].headers
       /\ clientRes[r].ended => clientRes'[r] = clientRes[r]
       /\ BytesWritten(r) =>
            \/ clientRes[r].written = <<>> /\ (HeadWritten(r) \/ attempt[r] = 0)
            \/ /\ clientRes[r].written = proxyRes[r].responseBody
               /\ clientRes'[r].written = proxyRes'[r].responseBody]_vars

\* The retry after a failure in the middle of a stream got its response:
\* the first attempt's bytes are on the client response and the second
\* writeHead has thrown.
C38_Witness ==
  /\ crashed
  /\ attempt[1] = 1
  /\ pc[1] = "responding"
  /\ clientRes[1].written # <<>>
  /\ ~clientRes[1].ended
  /\ proxyRes[1].responseBody = <<>>

====
